---------------------------- MODULE Spec2Model ----------------------------
(***************************************************************************)
(* Model of the announcement-text parsing core of speedhive-tools:         *)
(* SpeedHiveClient.find_track_record_announcements,                        *)
(* parse_track_record_announcement and is_record_valid                     *)
(* (src/speedhive_tools/client.py) and parse_track_record_text             *)
(* (src/speedhive_tools/utils/track_records.py).                           *)
(*                                                                         *)
(* A text is a sequence of one-character strings.  Every regular           *)
(* expression of the source is translated into an operator that computes   *)
(* what Python's backtracking `re` engine computes for it: the leftmost    *)
(* match, greedy and lazy quantifiers resolved in the engine's order.      *)
(***************************************************************************)
EXTENDS Integers, Sequences, FiniteSets, TLC

VARIABLES row, cand, pc, detected, result, textResult, verdict, out,
          seconds, looks, calls, frames, pages, fastest, offs, http, both,
          poll, life

vars == <<row, cand, pc, detected, result, textResult, verdict, out,
          seconds, looks, calls, frames, pages, fastest, offs, http, both,
          poll, life>>

-----------------------------------------------------------------------------
(* Values that are not text.                                               *)

\* Python's None, as a value no text can equal.
None == <<"None">>

\* A value that is not a str (an int, a list): isinstance(v, str) is False.
NotAStr == <<"object">>

IsStr(v) == v # None /\ v # NotAStr

-----------------------------------------------------------------------------
(* Characters and character classes of Python's re module.                 *)

Digits == {"0","1","2","3","4","5","6","7","8","9"}

UpperLetters == {"A","B","C","D","E","F","G","H","I","J","K","L","M",
                 "N","O","P","Q","R","S","T","U","V","W","X","Y","Z"}

LowerLetters == {"a","b","c","d","e","f","g","h","i","j","k","l","m",
                 "n","o","p","q","r","s","t","u","v","w","x","y","z"}

\* str.lower() on one character.
LowerOf ==
    ("A" :> "a") @@ ("B" :> "b") @@ ("C" :> "c") @@ ("D" :> "d") @@
    ("E" :> "e") @@ ("F" :> "f") @@ ("G" :> "g") @@ ("H" :> "h") @@
    ("I" :> "i") @@ ("J" :> "j") @@ ("K" :> "k") @@ ("L" :> "l") @@
    ("M" :> "m") @@ ("N" :> "n") @@ ("O" :> "o") @@ ("P" :> "p") @@
    ("Q" :> "q") @@ ("R" :> "r") @@ ("S" :> "s") @@ ("T" :> "t") @@
    ("U" :> "u") @@ ("V" :> "v") @@ ("W" :> "w") @@ ("X" :> "x") @@
    ("Y" :> "y") @@ ("Z" :> "z")

Lower(c) == IF c \in UpperLetters THEN LowerOf[c] ELSE c

\* \s : the whitespace characters the inputs use.
IsSpace(c) == c \in {" ", "\t", "\n"}

\* \d
IsDigit(c) == c \in Digits

\* [A-Za-z]
IsLetter(c) == c \in UpperLetters \/ c \in LowerLetters

\* \w
IsWord(c) == IsLetter(c) \/ IsDigit(c) \/ c = "_"

\* . (without DOTALL)
IsDot(c) == c # "\n" /\ c # ""

\* _SEPS: hyphen, en dash, em dash, bullet.  The three non-ASCII separators
\* are written NDASH, MDASH and BULLET.
IsSep(c) == c \in {"-", "NDASH", "MDASH", "BULLET"}

\* [A-Z0-9] of _CLASS_ABBR; under the (?i) flag it also matches a-z.
IsClassChar(c, ci) == c \in UpperLetters \/ IsDigit(c) \/ (ci /\ c \in LowerLetters)

\* The character at position i, or "" outside the text.
At(t, i) == IF i >= 1 /\ i <= Len(t) THEN t[i] ELSE ""

\* \b at position i: between t[i-1] and t[i] exactly one is a word character.
WordBoundary(t, i) == IsWord(At(t, i - 1)) # IsWord(At(t, i))

\* A literal `lit` (given in lower case) at position i, ignoring case.
LitAt(t, i, lit) ==
    /\ i >= 1
    /\ i + Len(lit) - 1 <= Len(t)
    /\ \A k \in 1..Len(lit) : Lower(t[i + k - 1]) = lit[k]

\* A literal at position i, case-sensitive.
LitAtCS(t, i, lit) ==
    /\ i >= 1
    /\ i + Len(lit) - 1 <= Len(t)
    /\ \A k \in 1..Len(lit) : t[i + k - 1] = lit[k]

\* Greedy \s* from position i: the position of the first non-space.
RECURSIVE SkipWs(_, _)
SkipWs(t, i) == IF IsSpace(At(t, i)) THEN SkipWs(t, i + 1) ELSE i

\* t[a..b-1], the text between two positions.
Slice(t, a, b) == IF b > a THEN SubSeq(t, a, b - 1) ELSE <<>>

MinOf(S) == CHOOSE x \in S : \A y \in S : x <= y

MaxOf(S) == CHOOSE x \in S : \A y \in S : x >= y

\* str.strip()
RECURSIVE LStrip(_)
LStrip(t) == IF t # <<>> /\ IsSpace(Head(t)) THEN LStrip(Tail(t)) ELSE t

RECURSIVE RStrip(_)
RStrip(t) ==
    IF t # <<>> /\ IsSpace(t[Len(t)]) THEN RStrip(SubSeq(t, 1, Len(t) - 1)) ELSE t

Strip(t) == RStrip(LStrip(t))

\* re.sub(r"\s+", " ", t): every run of whitespace becomes one space.
CollapseWs(t) ==
    LET keep == SelectSeq([i \in 1..Len(t) |-> i],
                          LAMBDA i : ~IsSpace(t[i]) \/ i = 1 \/ ~IsSpace(t[i - 1]))
    IN  SubSeq([k \in 1..Len(keep) |-> IF IsSpace(t[keep[k]]) THEN " " ELSE t[keep[k]]],
               1, Len(keep))

\* normalize_space (utils.py): whitespace runs become one space, then trim.
normalize_space(t) == Strip(CollapseWs(t))

\* sanitize_text (utils.py): zero-width characters removed, then
\* normalize_space.
sanitize_text(t) ==
    LET \* _SANITIZE_RX, [\u200B-\u200D\uFEFF]
        ZeroWidth == {"ZWSP", "ZWNJ", "ZWJ", "BOM"}
    IN  normalize_space(SelectSeq(t, LAMBDA c : c \notin ZeroWidth))

\* Words separated by \s+, ignoring case, from position i: the position
\* after the last word, or 0 when the text does not continue that way.
RECURSIVE PhraseEnd(_, _, _)
PhraseEnd(t, i, words) ==
    IF ~LitAt(t, i, Head(words)) THEN 0
    ELSE LET e == i + Len(Head(words))
         IN  IF Len(words) = 1 THEN e
             ELSE IF IsSpace(At(t, e)) THEN PhraseEnd(t, SkipWs(t, e), Tail(words))
             ELSE 0

\* pattern.search(t) of a pattern \bW1\s+W2...\b with (?i).
SearchPhrase(t, words) ==
    \E i \in 1..Len(t) :
        /\ WordBoundary(t, i)
        /\ PhraseEnd(t, i, words) # 0
        /\ WordBoundary(t, PhraseEnd(t, i, words))

-----------------------------------------------------------------------------
(* The detection gate.                                                     *)

TR_PATTERNS ==
    << <<<<"n","e","w">>, <<"t","r","a","c","k">>, <<"r","e","c","o","r","d">>>>,
       <<<<"n","e","w">>, <<"c","l","a","s","s">>, <<"r","e","c","o","r","d">>>>,
       <<<<"t","r","a","c","k">>, <<"r","e","c","o","r","d">>>> >>

NEGATION_PATTERNS ==
    << <<<<"n","o","t">>, <<"c","o","u","n","t","e","d">>>>,
       <<<<"u","n","o","f","f","i","c","i","a","l">>>>,
       <<<<"e","x","h","i","b","i","t","i","o","n">>>>,
       <<<<"n","o","t">>, <<"r","e","c","o","g","n","i","z","e","d">>>> >>

AnyPattern(pats, t) == \E k \in 1..Len(pats) : SearchPhrase(t, pats[k])

\* A variant that lets a positive keyword decide before the deny-list.
find_positive_first(t) ==
    IF t = None \/ t = <<>> THEN FALSE
    ELSE IF AnyPattern(TR_PATTERNS, t) THEN TRUE
    ELSE FALSE

find_track_record_announcements(t) ==
    IF t = None \/ t = <<>> THEN FALSE
    ELSE IF AnyPattern(NEGATION_PATTERNS, t) THEN FALSE
    ELSE AnyPattern(TR_PATTERNS, t)

-----------------------------------------------------------------------------
(* The tokens of the cascade.                                              *)

\* re.Match: ok, and the groups in the order of their opening parentheses
\* (None for a group that took no part in the match).
NoMatch == [ok |-> FALSE, g |-> <<>>]

Matched(groups) == [ok |-> TRUE, g |-> groups]

\* pattern.search(t): the match at the leftmost position, given the
\* pattern's result ms[s] at every start position s.
SearchFirst(ms) ==
    LET starts == {s \in DOMAIN ms : ms[s].ok}
    IN  IF starts = {} THEN NoMatch ELSE ms[MinOf(starts)]

\* An alternation a|b of two sub-patterns, each given as the position after
\* its match or 0: the first alternative that matches wins.
Alt(a, b) == IF a # 0 THEN a ELSE b

\* The least position of a set of candidates, or 0 when there is none.
MinOrZero(S) == IF S = {} THEN 0 ELSE MinOf(S)

\* SEP\s* at position i: the position after it, or 0.
SepWs(t, i) == IF IsSep(At(t, i)) THEN SkipWs(t, i + 1) ELSE 0

\* \d{1,2} followed by the character `next`: the number of digits, or 0.
Digits12(t, i, next) ==
    IF IsDigit(At(t, i)) /\ IsDigit(At(t, i + 1)) /\ At(t, i + 2) = next THEN 2
    ELSE IF IsDigit(At(t, i)) /\ At(t, i + 1) = next THEN 1
    ELSE 0

\* _TIME_MMSS = \b\d{1,2}:\d{2}\.\d{3}\b at position i: the position after
\* the token, or 0.  n is the number of minute digits.
TimeEnd(t, i) ==
    LET Rest(n) ==
            IF /\ n > 0
               /\ WordBoundary(t, i)
               /\ IsDigit(At(t, i + n + 1)) /\ IsDigit(At(t, i + n + 2))
               /\ At(t, i + n + 3) = "."
               /\ IsDigit(At(t, i + n + 4)) /\ IsDigit(At(t, i + n + 5))
               /\ IsDigit(At(t, i + n + 6))
               /\ WordBoundary(t, i + n + 7)
            THEN i + n + 7 ELSE 0
    IN  Rest(Digits12(t, i, ":"))

\* The length of the run of [A-Z0-9] from position i, at most max.
RECURSIVE ClassRun(_, _, _, _)
ClassRun(t, i, ci, max) ==
    IF max > 0 /\ IsClassChar(At(t, i), ci) THEN 1 + ClassRun(t, i + 1, ci, max - 1) ELSE 0

\* _CLASS_ABBR = \b[A-Z0-9]{1,4}(?:-[A-Z0-9]{1,3})?\b at position i: the
\* positions after the token the engine tries, in its order (with the
\* optional part first).  A shorter first or second part never ends on \b.
\* p is the position after the first part, r2 the length of the second.
ClassEnds(t, i, ci) ==
    LET Ends(p, r2) ==
            (IF r2 >= 1 /\ WordBoundary(t, p + 1 + r2) THEN <<p + 1 + r2>> ELSE <<>>) \o
            (IF WordBoundary(t, p) THEN <<p>> ELSE <<>>)
        Second(p) == Ends(p, IF At(t, p) = "-" THEN ClassRun(t, p + 1, ci, 3) ELSE 0)
        First(r1) == IF r1 >= 1 /\ WordBoundary(t, i) THEN Second(i + r1) ELSE <<>>
    IN  First(ClassRun(t, i, ci, 4))

\* The length of the run of characters satisfying the class from position i.
RECURSIVE DigitRun(_, _, _)
DigitRun(t, i, max) ==
    IF max > 0 /\ IsDigit(At(t, i)) THEN 1 + DigitRun(t, i + 1, max - 1) ELSE 0

RECURSIVE LetterRun(_, _, _)
LetterRun(t, i, max) ==
    IF max > 0 /\ IsLetter(At(t, i)) THEN 1 + LetterRun(t, i + 1, max - 1) ELSE 0

\* The three date tokens, at position i: the position after the token, or 0.
\*   1: \b\d{4}-\d{2}-\d{2}\b   2: \b[A-Za-z]{3,9} \d{1,2}, \d{4}\b
\*   3: \b\d{1,2}/\d{1,2}/\d{4}\b
DateEndK(t, i, k) ==
    LET Year(y) == IF DigitRun(t, y, 4) = 4 /\ WordBoundary(t, y + 4) THEN y + 4 ELSE 0
        \* token 2: n letters, then d digits of the day from position p
        Day(p, d) == IF d > 0 /\ At(t, p + d + 1) = " " THEN Year(p + d + 2) ELSE 0
        Month(n)  == IF n >= 3 /\ n <= 9 /\ At(t, i + n) = " "
                     THEN Day(i + n + 1, Digits12(t, i + n + 1, ",")) ELSE 0
        \* token 3: a digits, then b digits from position p
        Part2(p, b) == IF b > 0 THEN Year(p + b + 1) ELSE 0
        Part1(a)    == IF a > 0 THEN Part2(i + a + 1, Digits12(t, i + a + 1, "/")) ELSE 0
    IN  IF ~WordBoundary(t, i) THEN 0
        ELSE IF k = 1 THEN
            IF /\ DigitRun(t, i, 4) = 4 /\ At(t, i + 4) = "-"
               /\ DigitRun(t, i + 5, 2) = 2 /\ At(t, i + 7) = "-"
               /\ DigitRun(t, i + 8, 2) = 2 /\ WordBoundary(t, i + 10)
            THEN i + 10 ELSE 0
        ELSE IF k = 2 THEN Month(LetterRun(t, i, 10))
        ELSE Part1(Digits12(t, i, "/"))

\* The alternation of the three date tokens, in the order of the source.
DateEnd(t, i) ==
    LET First(e) == Alt(e[1], Alt(e[2], e[3]))
    IN  First([k \in 1..3 |-> DateEndK(t, i, k)])

\* re.search(dp, t) for date token k: the matched text, or None.
SearchDate(t, k) ==
    LET Token(s) == IF s = 0 THEN None ELSE Slice(t, s, DateEndK(t, s, k))
    IN  Token(MinOrZero({s \in 1..Len(t) : DateEndK(t, s, k) # 0}))

\* The length of the run of [^)] from position i.
RECURSIVE NotCloseRun(_, _)
NotCloseRun(t, i) ==
    IF i <= Len(t) /\ t[i] # ")" THEN 1 + NotCloseRun(t, i + 1) ELSE 0

\* _PAREN_CONTENT = \(\([^)]+\)\) at position i: the position after it, or
\* 0.  The pattern has no capturing group.
ParenEnd(t, i) ==
    LET Close(n) ==
            IF /\ At(t, i) = "(" /\ At(t, i + 1) = "("
               /\ n >= 1
               /\ At(t, i + 2 + n) = ")" /\ At(t, i + 3 + n) = ")"
            THEN i + 4 + n ELSE 0
    IN  Close(NotCloseRun(t, i + 2))

SearchParen(t) == \E s \in 1..Len(t) : ParenEnd(t, s) # 0

\* _PREFIX = (?i)New\s+(?:Track|Class)\s+Record at position s: the position
\* after it, or 0.
PREFIX(t, s) ==
    Alt(PhraseEnd(t, s, <<<<"n","e","w">>, <<"t","r","a","c","k">>, <<"r","e","c","o","r","d">>>>),
        PhraseEnd(t, s, <<<<"n","e","w">>, <<"c","l","a","s","s">>, <<"r","e","c","o","r","d">>>>))

\* (?:[.!]\s*$|\s*$) at position p.
AtEnd(t, p) ==
    \/ At(t, p) \in {".", "!"} /\ SkipWs(t, p + 1) = Len(t) + 1
    \/ SkipWs(t, p) = Len(t) + 1

\* (.+?)(?:[.!]\s*$|\s*$) from position ds: the position after the lazy
\* group, or 0.
LazyToEnd(t, ds) ==
    IF ds < 1 THEN 0
    ELSE MinOrZero({e \in (ds + 1)..(Len(t) + 1) :
                       /\ \A j \in ds..(e - 1) : IsDot(t[j])
                       /\ AtEnd(t, e)})

-----------------------------------------------------------------------------
(* Shapes 1-3: "(TIME) for CLASS by DRIVER [in MARQUE]".                   *)

NoHead == [ok |-> FALSE, lap |-> <<>>, cls |-> <<>>, ds |-> 0]

\* The common head  [\(\s*] (TIME) [\s*\)] \s* for \s+ (CLASS) \s+ by \s+
\* at position `from`: the lap time, the class and the position ds where the
\* driver group starts.  The texts matched are stripped, so the
\* greedy \s+ before the driver never has to give a space back.  Every
\* step takes the position its predecessor reached, 0 after a failure:
\* b and te delimit the lap time, f and ce the class.
ForByHeadFrom(t, from, paren) ==
    LET Open(a)  == IF ~paren THEN a
                    ELSE IF At(t, a) = "(" THEN SkipWs(t, a + 1) ELSE 0
        Close(c) == IF ~paren THEN c
                    ELSE IF At(t, c) = ")" THEN SkipWs(t, c + 1) ELSE 0
        For(d)   == IF LitAt(t, d, <<"f","o","r">>) /\ IsSpace(At(t, d + 3))
                    THEN SkipWs(t, d + 3) ELSE 0
        By(g)    == IF LitAt(t, g, <<"b","y">>) /\ IsSpace(At(t, g + 2))
                    THEN SkipWs(t, g + 2) ELSE 0
        Driver(b, te, f, ce, ds) ==
            IF ds # 0 /\ ds <= Len(t)
            THEN [ok |-> TRUE, lap |-> Slice(t, b, te), cls |-> Slice(t, f, ce), ds |-> ds]
            ELSE NoHead
        ClassEnd(b, te, f, cands, k) ==
            IF k = 0 THEN NoHead
            ELSE Driver(b, te, f, cands[k], By(SkipWs(t, cands[k])))
        Class(b, te, f, cands) ==
            ClassEnd(b, te, f, cands,
                     MinOrZero({k \in 1..Len(cands) : IsSpace(At(t, cands[k]))}))
        Time(b, te) ==
            IF te = 0 THEN NoHead
            ELSE LET AtClass(f) == Class(b, te, f, ClassEnds(t, f, TRUE))
                 IN  AtClass(For(Close(SkipWs(t, te))))
        Begin(b) == Time(b, TimeEnd(t, b))
    IN  Begin(Open(from))

\* PREFIX \s* and the common head, at position s.
ForByHead(t, s, paren) == ForByHeadFrom(t, SkipWs(t, PREFIX(t, s)), paren)

\* \s+in\s+(.+?)(?:[.!]\s*$|\s*$) at position q: the position where the
\* marque group starts, or 0.
InClause(t, q) ==
    LET Marque(ms) == IF LazyToEnd(t, ms) # 0 THEN ms ELSE 0
        In(x) == IF LitAt(t, x, <<"i","n">>) /\ IsSpace(At(t, x + 2))
                 THEN Marque(SkipWs(t, x + 2)) ELSE 0
    IN  IF IsSpace(At(t, q)) THEN In(SkipWs(t, q)) ELSE 0

\* The lazy driver group ends at the first k that an "in" clause follows.
RE_FOR_BY_IN_At(t, s) ==
    LET Groups(h, k, ms) ==
            Matched(<<h.lap, h.cls, Slice(t, h.ds, k + 1), Slice(t, ms, LazyToEnd(t, ms))>>)
        DriverEnd(h, k) == IF k = 0 THEN NoMatch ELSE Groups(h, k, InClause(t, k + 1))
        WithHead(h) ==
            IF ~h.ok THEN NoMatch
            ELSE DriverEnd(h, MinOrZero({k \in h.ds..Len(t) :
                                            /\ \A j \in h.ds..k : IsDot(t[j])
                                            /\ InClause(t, k + 1) # 0}))
    IN  WithHead(ForByHead(t, s, TRUE))

RE_FOR_BY_IN(t) == SearchFirst([s \in 1..Len(t) |-> RE_FOR_BY_IN_At(t, s)])

ForByAt(t, s, paren) ==
    LET Groups(h, e) == IF e = 0 THEN NoMatch ELSE Matched(<<h.lap, h.cls, Slice(t, h.ds, e)>>)
        WithHead(h) == IF ~h.ok THEN NoMatch ELSE Groups(h, LazyToEnd(t, h.ds))
    IN  WithHead(ForByHead(t, s, paren))

RE_FOR_BY_At(t, s) == ForByAt(t, s, TRUE)

RE_FOR_BY(t) == SearchFirst([s \in 1..Len(t) |-> RE_FOR_BY_At(t, s)])

RE_FOR_BY_NOPAREN_At(t, s) == ForByAt(t, s, FALSE)

RE_FOR_BY_NOPAREN(t) == SearchFirst([s \in 1..Len(t) |-> RE_FOR_BY_NOPAREN_At(t, s)])

\* looks_like_record_without_prefix: one of
\*   (?i)^\s*\(\s*(TIME)\s*\)\s*for\s+(CLASS)\s+by\s+(.+?)\s*[.!]?\s*$
\*   (?i)^\s*(TIME)\s*for\s+(CLASS)\s+by\s+(.+?)\s*[.!]?\s*$
\* is found in text.strip(); False for what is not a str.
looks_like_record_without_prefix(text) ==
    LET Ending(raw, p) ==
            \/ p = Len(raw) + 1
            \/ At(raw, p) \in {".", "!"} /\ SkipWs(raw, p + 1) = Len(raw) + 1
        Driver(raw, h) ==
            /\ h.ok
            /\ \E e \in (h.ds + 1)..(Len(raw) + 1) :
                  /\ \A j \in h.ds..(e - 1) : IsDot(raw[j])
                  /\ Ending(raw, SkipWs(raw, e))
        Search(raw) == \E paren \in BOOLEAN :
                          Driver(raw, ForByHeadFrom(raw, SkipWs(raw, 1), paren))
    IN  IF ~IsStr(text) THEN FALSE ELSE Search(Strip(text))
-----------------------------------------------------------------------------
(* Shapes 4 and 5: the separator-delimited shapes.                         *)

\* (?:\s*SEP\s*(DATE))? at position p: the date group, or None.
DateGroup(t, p) ==
    LET Token(i, e) == IF e = 0 THEN None ELSE Slice(t, i, e)
        Date(i) == Token(i, DateEnd(t, i))
    IN  Date(SepWs(t, SkipWs(t, p)))

\* \s*SEP\s*(TIME) after position p: the position where the time starts,
\* or 0.
TimeStart(t, p) == SepWs(t, SkipWs(t, p))

\* (CLASS)\s*SEP\s*(TIME)\s*SEP\s*(.+?) with the class ending at ce: the
\* position of the driver group, or 0.  The lazy driver group is followed
\* by optional parts only, so it is one character long.
PrimaryChain(t, ce) ==
    LET Driver(e) == IF IsDot(At(t, e)) THEN e ELSE 0
    IN  Driver(SepWs(t, SkipWs(t, TimeEnd(t, TimeStart(t, ce)))))

\* \s*SEP\s*(CLASS)... at position q; a is where the class starts, ce
\* where it ends, c where the time starts and e where the driver is.
PrimaryChainAt(t, q) ==
    LET AfterParen(f) == Alt(ParenEnd(t, f), f)
        Groups(a, ce, c, e) ==
            Matched(<<Slice(t, a, ce), Slice(t, c, TimeEnd(t, c)), <<t[e]>>,
                      DateGroup(t, AfterParen(SkipWs(t, e + 1)))>>)
        ClassEnd(a, cands, k) ==
            IF k = 0 THEN NoMatch
            ELSE Groups(a, cands[k], TimeStart(t, cands[k]), PrimaryChain(t, cands[k]))
        Class(a, cands) ==
            ClassEnd(a, cands,
                     MinOrZero({k \in 1..Len(cands) : PrimaryChain(t, cands[k]) # 0}))
        ClassStart(a) == Class(a, ClassEnds(t, a, TRUE))
    IN  IF IsSep(At(t, q)) THEN ClassStart(SkipWs(t, q + 1)) ELSE NoMatch

\* PRIMARY at position s: the lazy .*? stops at the first separator chain.
PRIMARY_At(t, s) ==
    LET Chain(q) == IF q = 0 THEN NoMatch ELSE PrimaryChainAt(t, q)
        Prefix(p1) ==
            IF p1 = 0 THEN NoMatch
            ELSE Chain(MinOrZero({q \in p1..Len(t) :
                                     /\ \A j \in p1..(q - 1) : IsDot(t[j])
                                     /\ PrimaryChainAt(t, q).ok}))
    IN  Prefix(PREFIX(t, s))

PRIMARY(t) == SearchFirst([s \in 1..Len(t) |-> PRIMARY_At(t, s)])

\* \s*(?:PAREN)?\s*SEP\s*(TIME)\s*SEP\s*(CLASS)(?:\s*SEP\s*(DATE))? at
\* position q: the groups <<TIME, CLASS, DATE>>.  h and te delimit the
\* time, k is where the class starts.
AlternateRest(t, q) ==
    LET AfterParen(f) == Alt(ParenEnd(t, f), f)
        Groups(h, te, k, cands) ==
            IF cands = <<>> THEN NoMatch
            ELSE Matched(<<Slice(t, h, te), Slice(t, k, cands[1]), DateGroup(t, cands[1])>>)
        Class(h, te, k) == Groups(h, te, k, ClassEnds(t, k, TRUE))
        Time(h, te) == Class(h, te, SepWs(t, SkipWs(t, te)))
        Start(h) == Time(h, TimeEnd(t, h))
    IN  Start(TimeStart(t, AfterParen(SkipWs(t, q))))

\* ALTERNATE at position s: PREFIX .*? \s* (.+?) and the rest.  The engine
\* tries .*? empty first and the greedy \s* from its longest; the lazy
\* driver group then grows to the first position where the rest matches.
\* When no driver start in p1..SkipWs(p1) works, no later one does.  R is
\* the set of positions where the rest matches, ds the driver's start.
ALTERNATE_At(t, s) ==
    LET Groups(ds, q0) == Matched(<<Slice(t, ds, q0)>> \o AlternateRest(t, q0).g)
        Driver(R, ds) == Groups(ds, MinOf({q \in R : q > ds}))
        Starts(R, starts) == IF starts = {} THEN NoMatch ELSE Driver(R, MaxOf(starts))
        Rests(p1, R) ==
            Starts(R, {d \in p1..SkipWs(t, p1) :
                          \E q \in R : q > d /\ \A j \in d..(q - 1) : IsDot(t[j])})
        Prefix(p1) ==
            IF p1 = 0 THEN NoMatch
            ELSE Rests(p1, {q \in (p1 + 1)..Len(t) : AlternateRest(t, q).ok})
    IN  Prefix(PREFIX(t, s))

ALTERNATE(t) == SearchFirst([s \in 1..Len(t) |-> ALTERNATE_At(t, s)])
-----------------------------------------------------------------------------
(* datetime.strptime(s, fmt).date().isoformat()                            *)

DigitVal ==
    ("0" :> 0) @@ ("1" :> 1) @@ ("2" :> 2) @@ ("3" :> 3) @@ ("4" :> 4) @@
    ("5" :> 5) @@ ("6" :> 6) @@ ("7" :> 7) @@ ("8" :> 8) @@ ("9" :> 9)

DigitChar == <<"0","1","2","3","4","5","6","7","8","9">>

\* int() of a text of digits.
RECURSIVE Num(_)
Num(t) == IF t = <<>> THEN 0 ELSE 10 * Num(SubSeq(t, 1, Len(t) - 1)) + DigitVal[t[Len(t)]]

\* The decimal digits of n, zero-padded to width w.
RECURSIVE Pad(_, _)
Pad(n, w) == IF w = 0 THEN <<>> ELSE Pad(n \div 10, w - 1) \o <<DigitChar[(n % 10) + 1]>>

MonthNames ==
    <<<<"j","a","n","u","a","r","y">>, <<"f","e","b","r","u","a","r","y">>, <<"m","a","r","c","h">>, <<"a","p","r","i","l">>, <<"m","a","y">>, <<"j","u","n","e">>,
      <<"j","u","l","y">>, <<"a","u","g","u","s","t">>, <<"s","e","p","t","e","m","b","e","r">>, <<"o","c","t","o","b","e","r">>, <<"n","o","v","e","m","b","e","r">>, <<"d","e","c","e","m","b","e","r">>>>

LowerText(t) == SubSeq([k \in 1..Len(t) |-> Lower(t[k])], 1, Len(t))

\* %B and %b: the number of the month named (in full / by its first three
\* letters), ignoring case, or 0.
MonthFull(name) == MinOrZero({m \in 1..12 : MonthNames[m] = LowerText(name)})

MonthAbbr(name) == MinOrZero({m \in 1..12 : SubSeq(MonthNames[m], 1, 3) = LowerText(name)})

IsLeap(y) == (y % 4 = 0 /\ y % 100 # 0) \/ y % 400 = 0

DaysIn(y, m) ==
    IF m = 2 THEN (IF IsLeap(y) THEN 29 ELSE 28)
    ELSE IF m \in {4, 6, 9, 11} THEN 30 ELSE 31

\* date(y, m, d).isoformat(), or None where strptime raises ValueError.
IsoDate(y, m, d) ==
    IF y >= 1 /\ m >= 1 /\ m <= 12 /\ d >= 1 /\ d <= DaysIn(y, m)
    THEN Pad(y, 4) \o <<"-">> \o Pad(m, 2) \o <<"-">> \o Pad(d, 2)
    ELSE None

\* The position of the first occurrence of character c in t, or 0.
IndexOf(t, c) == MinOrZero({k \in 1..Len(t) : t[k] = c})

\* The first of two attempts that did not fail with None.
OrElse(a, b) == IF a # None THEN a ELSE b

\* The loop over ("%Y-%m-%d", "%b %d, %Y", "%B %d, %Y", "%m/%d/%Y",
\* "%d/%m/%Y") applied to a matched date token s: the ISO date of the first
\* format that parses, or None when every format raises ValueError.
Strptime(s) ==
    LET \* "%b %d, %Y" and then "%B %d, %Y" on "name d, y"
        Month(m, d, y) == IF m = 0 THEN None ELSE IsoDate(y, m, d)
        Named(name, d, y) ==
            OrElse(Month(MonthAbbr(name), d, y), Month(MonthFull(name), d, y))
        Words(sp, cm) ==
            Named(SubSeq(s, 1, sp - 1), Num(SubSeq(s, sp + 1, cm - 1)),
                  Num(SubSeq(s, cm + 2, Len(s))))
        \* "%m/%d/%Y" and then "%d/%m/%Y" on "a/b/y"
        Slashed(a, b, y) == OrElse(IsoDate(y, a, b), IsoDate(y, b, a))
        Second(a, r, s2) ==
            Slashed(a, Num(SubSeq(r, 1, s2 - 1)), Num(SubSeq(r, s2 + 1, Len(r))))
        Rest(s1, r) == Second(Num(SubSeq(s, 1, s1 - 1)), r, IndexOf(r, "/"))
        First(s1) == Rest(s1, SubSeq(s, s1 + 1, Len(s)))
        Format(k) ==
            IF k = 1 THEN IsoDate(Num(SubSeq(s, 1, 4)), Num(SubSeq(s, 6, 7)),
                                  Num(SubSeq(s, 9, 10)))
            ELSE IF k = 2 THEN Words(IndexOf(s, " "), IndexOf(s, ","))
            ELSE IF k = 3 THEN First(IndexOf(s, "/"))
            ELSE None
    IN  Format(MinOrZero({k \in 1..3 : DateEndK(s, 1, k) = Len(s) + 1}))

-----------------------------------------------------------------------------
(* Field cleaning.                                                         *)

\* \[\s*\d+\s*\]\s* at position i: the position after it, or 0.
MarkerEnd(t, i) ==
    LET Close(b) == IF At(t, b) = "]" THEN SkipWs(t, b + 1) ELSE 0
        Number(a, n) == IF n >= 1 THEN Close(SkipWs(t, a + n)) ELSE 0
        Open(a) == Number(a, DigitRun(t, a, Len(t)))
    IN  IF At(t, i) = "[" THEN Open(SkipWs(t, i + 1)) ELSE 0

\* re.sub(r"\[\s*\d+\s*\]\s*", "", t): every marker removed, left to right.
RemoveMarkers(t) ==
    LET Kept(keep) == SubSeq([k \in 1..Len(keep) |-> t[keep[k]]], 1, Len(keep))
    IN  Kept(SelectSeq([i \in 1..Len(t) |-> i],
                       LAMBDA j : \A i \in 1..j : j >= MarkerEnd(t, i)))

\* driver_clean of parse_track_record_announcement.
driver_clean(driver_raw) == Strip(RemoveMarkers(driver_raw))

-----------------------------------------------------------------------------
(* The parser.                                                             *)

\* TrackRecord(...): the fields as passed to the constructor.
TrackRecord(driver_name, lap_time, track_name, date, vehicle, class_name) ==
    [driver_name |-> driver_name, lap_time |-> lap_time, track_name |-> track_name,
     date |-> date, vehicle |-> vehicle, class_name |-> class_name]

\* Truthiness of a value that is None or a str.
Truthy(v) == v # None /\ v # <<>>

\* What a call of parse_track_record_announcement ends in: a TrackRecord
\* ("record"), None ("none") or an exception ("raise"); `shape` is the
\* branch of the cascade that ended the call (0: the detection gate).
Outcome(kind, shape, rec, error) ==
    [kind |-> kind, shape |-> shape, rec |-> rec, error |-> error]

NoRecord == TrackRecord(None, None, None, None, None, None)

Returned(shape, rec) == Outcome("record", shape, rec, "none")

ReturnedNone(shape) == Outcome("none", shape, NoRecord, "none")

Raised(shape, error) == Outcome("raise", shape, NoRecord, error)

\* The values of the row that are non-blank strings, stripped, in the order
\* of the row's keys.
RowStrings(r) ==
    LET Stripped(strs) == SubSeq([k \in 1..Len(strs) |-> Strip(strs[k])], 1, Len(strs))
    IN  Stripped(SelectSeq(<<r.text, r.eventDate, r.trackName>>,
                           LAMBDA v : IsStr(v) /\ Strip(v) # <<>>))

\* sorted(strings, key=len, reverse=True)[0]: the first of the longest.
Longest(strs) ==
    LET First(best) == strs[MinOf({k \in 1..Len(strs) : Len(strs[k]) = best})]
    IN  First(MaxOf({Len(strs[k]) : k \in 1..Len(strs)}))

get_announcement_text(r) ==
    LET Candidates(strs) == IF strs # <<>> THEN Longest(strs) ELSE <<>>
        Text(text) == IF text # <<>> THEN text ELSE Candidates(RowStrings(r))
    IN  Text(IF IsStr(r.text) THEN Strip(r.text) ELSE <<>>)

\* raw = re.sub(r"\s+", " ", text).strip()
Raw(r) == Strip(CollapseWs(get_announcement_text(r)))

\* SEPARATOR_SPLIT.split(t): the pieces between separators.
SplitSeps(t) ==
    LET Pieces(seps, n) ==
            SubSeq([k \in 1..(n + 1) |->
                       Slice(t, IF k = 1 THEN 1 ELSE seps[k - 1] + 1,
                                IF k = n + 1 THEN Len(t) + 1 ELSE seps[k])],
                   1, n + 1)
        Seps(seps) == Pieces(seps, Len(seps))
    IN  Seps(SelectSeq([i \in 1..Len(t) |-> i], LAMBDA i : IsSep(t[i])))

\* tokens = [t.strip() for t in SEPARATOR_SPLIT.split(raw) if t.strip()]
Tokens(t) ==
    LET Stripped(kept) == SubSeq([k \in 1..Len(kept) |-> Strip(kept[k])], 1, Len(kept))
    IN  Stripped(SelectSeq(SplitSeps(t), LAMBDA p : Strip(p) # <<>>))

\* CLASS_FULL.fullmatch(t): the class token without (?i).
CLASS_FULL(t) ==
    LET Full(ends) == \E k \in 1..Len(ends) : ends[k] = Len(t) + 1
    IN  Full(ClassEnds(t, 1, FALSE))

\* FIND_TIME.search(t).group(0), or None.
FIND_TIME(t) ==
    LET Token(s) == IF s = 0 THEN None ELSE Slice(t, s, TimeEnd(t, s))
    IN  Token(MinOrZero({s \in 1..Len(t) : TimeEnd(t, s) # 0}))

\* next((t for t in tokens if CLASS_FULL.fullmatch(t)), None)
FirstClassToken(tokens) ==
    LET Token(k) == IF k = 0 THEN None ELSE tokens[k]
    IN  Token(MinOrZero({k \in 1..Len(tokens) : CLASS_FULL(tokens[k])}))

is_date_token(t) == \E k \in 1..3 : \E s \in 1..Len(t) : DateEndK(t, s, k) # 0

\* The date loop of the fallback: tokens in order, for each the three date
\* tokens in order, the first whose text strptime parses.
FallbackDate(tokens) ==
    LET Parsed(s) == IF s = None THEN None ELSE Strptime(s)
        Hit(n) == Parsed(SearchDate(tokens[((n - 1) \div 3) + 1], ((n - 1) % 3) + 1))
        Pick(hits, n) == IF n = 0 THEN None ELSE hits[n]
        First(hits) == Pick(hits, MinOrZero({n \in DOMAIN hits : hits[n] # None}))
    IN  First([n \in 1..(3 * Len(tokens)) |-> Hit(n)])

\* The fallback anchored on the lap time (shape 6), given the date it
\* resolved.
FallbackBody(r, raw, date_iso) ==
    LET Result(lap_time, tokens, class_abbr, driver) ==
            IF lap_time = None THEN ReturnedNone(6)
            \* mm.group(1) of a pattern without groups: IndexError
            ELSE IF \E k \in 1..Len(tokens) : SearchParen(tokens[k])
                 THEN Raised(6, "IndexError")
            ELSE IF class_abbr # None \/ driver # <<>> \/ Truthy(date_iso)
                 THEN Returned(6, TrackRecord(driver, lap_time, r.trackName, date_iso, None,
                                              IF class_abbr # None THEN class_abbr ELSE <<>>))
            ELSE ReturnedNone(6)
        Driver(lap_time, tokens, class_abbr, candidates) ==
            Result(lap_time, tokens, class_abbr,
                   IF candidates # <<>> THEN Longest(candidates) ELSE <<>>)
        Class(lap_time, tokens, class_abbr) ==
            Driver(lap_time, tokens, class_abbr,
                   SelectSeq(tokens, LAMBDA t :
                       /\ t # lap_time /\ t # class_abbr
                       /\ ~is_date_token(t)
                       /\ ~SearchParen(t)
                       /\ \A s \in 1..Len(t) : ~LitAtCS(t, s, <<"N","e","w"," ","T","r","a","c","k"," ","R","e","c","o","r","d">>)
                       /\ \A s \in 1..Len(t) : ~LitAtCS(t, s, <<"N","e","w"," ","C","l","a","s","s"," ","R","e","c","o","r","d">>)))
        Split(lap_time, tokens) == Class(lap_time, tokens, FirstClassToken(tokens))
    IN  Split(FIND_TIME(raw), Tokens(raw))

\* A variant of the fallback in which a date found in the text wins over
\* the row's eventDate.
FallbackTextDateFirst(r, raw) ==
    FallbackBody(r, raw, OrElse(FallbackDate(Tokens(raw)), r.eventDate))

\* date_iso = row.get("eventDate"); the tokens are searched only without it.
Fallback(r, raw) ==
    FallbackBody(r, raw, IF Truthy(r.eventDate) THEN r.eventDate
                         ELSE FallbackDate(Tokens(raw)))

\* final_date of the separator branches: the conversion loop runs only
\* when the row has no eventDate and maybe_date is truthy.
FinalDate(r, maybe_date) ==
    IF Truthy(r.eventDate) THEN r.eventDate
    ELSE IF Truthy(maybe_date) THEN OrElse(Strptime(Strip(maybe_date)), r.eventDate)
    ELSE r.eventDate

\* (maybe_marque.strip() if maybe_marque else None)
MaybeStrip(v) == IF Truthy(v) THEN Strip(v) ELSE None

\* The branch of shapes 1-3, given the groups <<lap, class, driver[, marque]>>.
ForByRecord(r, shape, g) ==
    Returned(shape, TrackRecord(driver_clean(g[3]), Strip(g[1]), r.trackName, r.eventDate,
                                IF Len(g) = 4 THEN Strip(g[4]) ELSE None, Strip(g[2])))

\* The primary branch: class_abbr, lap_time, driver_raw, maybe_marque,
\* maybe_date = (list(m.groups()) + ["", ""])[:5], where m has four groups.
PrimaryRecord(r, g) ==
    LET u == SubSeq(g \o << <<>>, <<>> >>, 1, 5)
    IN  Returned(4, TrackRecord(driver_clean(u[3]), Strip(u[2]), r.trackName,
                                FinalDate(r, u[5]), MaybeStrip(u[4]), Strip(u[1])))

\* The alternate branch: driver_raw, maybe_marque, lap_time, class_abbr,
\* maybe_date = (list(m.groups()) + [""])[0:5], where m has four groups;
\* .strip() of a group that is None raises AttributeError.
AlternateRecord(r, g) ==
    LET u == SubSeq(g \o << <<>> >>, 1, 5)
    IN  IF u[3] = None \/ u[4] = None THEN Raised(5, "AttributeError")
        ELSE Returned(5, TrackRecord(driver_clean(u[1]), Strip(u[3]), r.trackName,
                                     FinalDate(r, u[5]), MaybeStrip(u[2]), Strip(u[4])))

\* The structured shapes in the order of the source, first match wins;
\* `otherwise` is what the call ends in when none of them matches.
Shapes(r, raw, otherwise) ==
    LET Try5(m) == IF m.ok THEN AlternateRecord(r, m.g) ELSE otherwise
        Try4(m) == IF m.ok THEN PrimaryRecord(r, m.g) ELSE Try5(ALTERNATE(raw))
        Try3(m) == IF m.ok THEN ForByRecord(r, 3, m.g) ELSE Try4(PRIMARY(raw))
        Try2(m) == IF m.ok THEN ForByRecord(r, 2, m.g) ELSE Try3(RE_FOR_BY_NOPAREN(raw))
        Try1(m) == IF m.ok THEN ForByRecord(r, 1, m.g) ELSE Try2(RE_FOR_BY(raw))
    IN  Try1(RE_FOR_BY_IN(raw))

\* A variant of the cascade that tries the lap-time fallback before the
\* structured shapes.
CascadeFallbackFirst(r, raw) ==
    LET First(fb) == IF fb.kind = "record" THEN fb ELSE Shapes(r, raw, ReturnedNone(6))
    IN  First(Fallback(r, raw))

\* The cascade: the structured shapes, then the lap-time fallback.
Cascade(r, raw) == Shapes(r, raw, Fallback(r, raw))

\* A variant that runs the cascade on every row, gate or no gate.
parse_without_gate(r) == Cascade(r, Raw(r))

parse_track_record_announcement(r) ==
    LET Gate(raw) == IF ~find_track_record_announcements(raw) THEN ReturnedNone(0)
                     ELSE Cascade(r, raw)
    IN  Gate(Raw(r))

-----------------------------------------------------------------------------
(* The validator.                                                          *)

\* re.fullmatch(r"\d{1,2}:\d{2}\.\d{3}", s)
CanonicalLapTime(s) ==
    LET Rest(n) ==
            /\ n > 0
            /\ Len(s) = n + 7
            /\ IsDigit(s[n + 2]) /\ IsDigit(s[n + 3])
            /\ s[n + 4] = "."
            /\ IsDigit(s[n + 5]) /\ IsDigit(s[n + 6]) /\ IsDigit(s[n + 7])
    IN  Rest(Digits12(s, 1, ":"))

\* not isinstance(v, str) or not v.strip()
Blank(v) == ~IsStr(v) \/ Strip(v) = <<>>

Verdict(ok, reason) == [ok |-> ok, reason |-> reason]

\* A variant that checks the driver before the lap time.
is_record_valid_driver_first(opt) ==
    IF opt = <<>> THEN Verdict(FALSE, "No record parsed")
    ELSE LET tr == opt[1]
         IN  IF Blank(tr.driver_name) THEN Verdict(FALSE, "Missing driverName")
             ELSE IF ~Truthy(tr.lap_time) \/ ~CanonicalLapTime(tr.lap_time)
                  THEN Verdict(FALSE, "Invalid lapTime")
             ELSE IF Blank(tr.track_name) THEN Verdict(FALSE, "Missing trackName")
             ELSE IF Blank(tr.class_name) THEN Verdict(FALSE, "Missing classAbbreviation")
             ELSE Verdict(TRUE, "None")

\* A variant that checks the class before the track name.
is_record_valid_class_first(opt) ==
    IF opt = <<>> THEN Verdict(FALSE, "No record parsed")
    ELSE LET tr == opt[1]
         IN  IF ~Truthy(tr.lap_time) \/ ~CanonicalLapTime(tr.lap_time)
                  THEN Verdict(FALSE, "Invalid lapTime")
             ELSE IF Blank(tr.driver_name) THEN Verdict(FALSE, "Missing driverName")
             ELSE IF Blank(tr.class_name) THEN Verdict(FALSE, "Missing classAbbreviation")
             ELSE IF Blank(tr.track_name) THEN Verdict(FALSE, "Missing trackName")
             ELSE Verdict(TRUE, "None")

\* An Optional[TrackRecord] is <<>> (None) or <<tr>>.
is_record_valid(opt) ==
    IF opt = <<>> THEN Verdict(FALSE, "No record parsed")
    ELSE LET tr == opt[1]
         IN  IF ~Truthy(tr.lap_time) \/ ~CanonicalLapTime(tr.lap_time)
                  THEN Verdict(FALSE, "Invalid lapTime")
             ELSE IF Blank(tr.driver_name) THEN Verdict(FALSE, "Missing driverName")
             ELSE IF Blank(tr.track_name) THEN Verdict(FALSE, "Missing trackName")
             ELSE IF Blank(tr.class_name) THEN Verdict(FALSE, "Missing classAbbreviation")
             ELSE Verdict(TRUE, "None")

-----------------------------------------------------------------------------
(* The inputs.                                                             *)

\* The largest grid-position number of a "[n] " marker in the inputs.
MaxGrid == 1

MaxThreads == 3

\* The largest totalPages a server reports.
MaxPage == 3

\* The largest number of records found in the exported announcements.
MaxRecords == 3
MaxRequests == 3
MaxRetries == 3
MaxPolls == 2
MaxPollers == 3
MaxCalls == 5

Times == {<<"1",":","1","7",".","8","7","0">>, <<"6","3",".","0","0","4">>}

Marker(n) == <<"[">> \o Pad(n, 1) \o <<"]">>

Drivers ==
    {<<"B","o","b"," ","C","r","o","s","s">>, <<"B">>}
    \cup {Marker(n) \o <<" ","K","a","y">> : n \in 1..MaxGrid}
    \cup {Marker(n) : n \in 1..MaxGrid}

DateTokens == {<<"2","0","2","4","-","0","5","-","1","0">>, <<"M","a","y"," ","1","0",","," ","2","0","2","4">>, <<"5","/","1","0","/","2","0","2","4">>}

Prefixes == {<<"N","e","w"," ","T","r","a","c","k"," ","R","e","c","o","r","d">>, <<"n","e","w"," ","c","l","a","s","s"," ","r","e","c","o","r","d">>, <<"T","r","a","c","k"," ","R","e","c","o","r","d">>}

\* "PREFIX (TIME) for IT7 by DRIVER[ in Ford][.]"
ForByTexts ==
    {p \o <<" ","(">> \o tm \o <<")"," ","f","o","r"," ","I","T","7"," ","b","y"," ">> \o d \o m \o e :
        p \in Prefixes, tm \in Times, d \in Drivers,
        m \in {<<>>, <<" ","i","n"," ","F","o","r","d">>}, e \in {<<>>, <<".">>}}

\* "PREFIX TIME for T4-2 by DRIVER"
NoParenTexts ==
    {p \o <<" ">> \o tm \o <<" ","f","o","r"," ","T","4","-","2"," ","b","y"," ">> \o d :
        p \in Prefixes, tm \in Times, d \in Drivers}

\* "PREFIX - IT7 - 1:17.870 - DRIVER[ ((Ford))][ - DATE]"
PrimaryTexts ==
    {p \o <<" ","-"," ","I","T","7"," ","-"," ","1",":","1","7",".","8","7","0"," ","-"," ">> \o d \o m \o dt :
        p \in {<<"N","e","w"," ","T","r","a","c","k"," ","R","e","c","o","r","d">>, <<"T","r","a","c","k"," ","R","e","c","o","r","d">>}, d \in Drivers,
        m \in {<<>>, <<" ","(","(","F","o","r","d",")",")">>},
        dt \in {<<>>} \cup {<<" ","-"," ">> \o x : x \in DateTokens}}

\* "PREFIX DRIVER[ ((Ford))] - 1:17.870 - IT7[ - DATE]"
AlternateTexts ==
    {p \o <<" ">> \o d \o m \o <<" ","-"," ","1",":","1","7",".","8","7","0"," ","-"," ","I","T","7">> \o dt :
        p \in {<<"N","e","w"," ","T","r","a","c","k"," ","R","e","c","o","r","d">>, <<"T","r","a","c","k"," ","R","e","c","o","r","d">>}, d \in Drivers,
        m \in {<<>>, <<" ","(","(","F","o","r","d",")",")">>},
        dt \in {<<>>} \cup {<<" ","-"," ">> \o x : x \in DateTokens}}

\* Free text around a lap time.
LooseTexts ==
    {<<"N","e","w"," ","T","r","a","c","k"," ","R","e","c","o","r","d"," ","1",":","1","7",".","8","7","0">>,
     <<"N","e","w"," ","T","r","a","c","k"," ","R","e","c","o","r","d",":"," ","B","o","b"," ","C","r","o","s","s"," ","1",":","1","7",".","8","7","0">>,
     <<"T","r","a","c","k"," ","R","e","c","o","r","d"," ","1",":","1","7",".","8","7","0">>,
     <<"T","r","a","c","k"," ","R","e","c","o","r","d"," ","1",":","1","7",".","8","7","0"," ","-"," ","B","o","b"," ","C","r","o","s","s"," ","-"," ","M","a","y"," ","1","0",","," ","2","0","2","4">>,
     <<"T","r","a","c","k"," ","R","e","c","o","r","d"," ","1",":","1","7",".","8","7","0"," ","B","o","b"," ","5","/","1","0","/","2","0","2","4">>,
     <<"T","r","a","c","k"," ","R","e","c","o","r","d"," ","1",":","1","7",".","8","7","0"," ","-"," ","(","(","F","o","r","d",")",")"," ","-"," ","B","o","b"," ","C","r","o","s","s">>,
     <<"N","e","w"," ","T","r","a","c","k"," ","R","e","c","o","r","d","-"," ","1",":","1","7",".","8","7","0"," ","-"," ","I","T","7"," ","-"," ","2","0","2","4","-","0","5","-","1","0">>,
     <<"N","e","w"," ","T","r","a","c","k"," ","R","e","c","o","r","d"," ","-"," ","1",":","1","7",".","8","7","0"," ","-"," ","I","T","7"," ","-"," ","2","0","2","4","-","0","5","-","1","0">>,
     <<"N","e","w"," ","T","r","a","c","k"," ","R","e","c","o","r","d"," ","b","y"," ","B","o","b"," ","C","r","o","s","s">>,
     <<"N","e","w"," ","T","r","a","c","k"," ","R","e","c","o","r","d"," ","(","1",":","1","7",".","8","7","0",")"," ","f","o","r"," ","I","T","7"," ","b","y"," ","B","o","b"," ","i","n"," ","F","o","r","d"," ","-"," ","F","A"," ","-"," ","1",":","1","8",".","0","0","0"," ","-"," ","X">>,
     <<"N","e","w"," ","T","r","a","c","k"," ","R","e","c","o","r","d"," ","(","1",":","1","7",".","8","7","0",")"," ","f","o","r"," ","T","O","O","L","O","N","G"," ","b","y"," ","B","o","b"," ","C","r","o","s","s">>,
     <<"N","e","w"," ","T","r","a","c","k"," ","R","e","c","o","r","d"," ","(","1",":","1","7",".","8","7","0",")"," ","f","o","r"," ","I","T","7"," ","b","y"," ","B","o","b"," ","C","r","o","s","s"," ","t","o"," ","b","e"," ","c","o","n","f","i","r","m","e","d">>,
     <<" "," ","N","e","w"," "," ","T","r","a","c","k","\t","R","e","c","o","r","d"," ","(","1",":","1","7",".","8","7","0",")"," "," ","f","o","r"," ","I","T","7"," ","b","y"," "," ","B","o","b"," ","C","r","o","s","s"," ","\n">>,
     <<"N","e","w"," ","T","r","a","c","k"," ","R","e","c","o","r","d"," ","(","1",":","1","7",".","8","7","0",")"," ","f","o","r"," ","I","T","7"," ","b","y"," ","B","o","b"," ","[","1","]"," ","C","r","o","s","s">>,
     <<"N","e","w"," ","T","r","a","c","k"," ","R","e","c","o","r","d"," ","(","1",":","1","7",".","8","7","0",")"," ","f","o","r"," ","I","T","7"," ","b","y"," ","[","1","]"," ","[","1","]"," ","K","a","y">>,
     <<"N","e","w"," ","T","r","a","c","k"," ","R","e","c","o","r","d"," ","(","1",":","1","7",".","8","7","0",")"," ","f","o","r"," ","I","T","7"," ","b","y"," ","[","[","1","]","1","]"," ","K","a","y">>,
     <<"N","e","w"," ","T","r","a","c","k"," ","R","e","c","o","r","d"," ","(","1",":","1","7",".","8","7","0",")"," ","f","o","r"," ","I","T","7"," ","b","y"," ","B","o","b","ZWSP","C","r","o","s","s">>,
     <<"N","e","w","ZWSP"," ","T","r","a","c","k"," ","R","e","c","o","r","d"," ","(","1",":","1","7",".","8","7","0",")"," ","f","o","r"," ","I","T","7"," ","b","y"," ","B","o","b"," ","C","r","o","s","s">>,
     <<" ","N","e","w"," "," ","T","r","a","c","k","\t","R","e","c","o","r","d"," "," ","(","1",":","1","7",".","8","7","0",")"," "," ","f","o","r"," "," ","I","T","7"," "," ","b","y"," "," ","B","o","b"," "," ","C","r","o","s","s"," ">>,
     <<"T","r","a","c","k"," ","R","e","c","o","r","d"," ","-"," ","1",":","1","7",".","8","7","0"," ","-"," ","B","o","b">>,
     <<"n","e","w"," ","t","r","a","c","k"," ","r","e","c","o","r","d"," ","-"," ","1",":","1","7",".","8","7","0"," ","-"," ","B","o","b"," ","C","r","o","s","s">>,
     <<"N","e","w"," ","T","r","a","c","k"," ","R","e","c","o","r","d"," ","-"," ","1",":","1","7",".","8","7","0">>,
     <<"n","e","w"," ","t","r","a","c","k"," ","r","e","c","o","r","d"," ","-"," ","1",":","1","7",".","8","7","0">>,
     <<"(","1",":","1","7",".","8","7","0",")"," ","f","o","r"," ","I","T","7"," ","b","y"," ","B","o","b"," ","C","r","o","s","s">>,
     <<"1",":","1","7",".","8","7","0"," ","f","o","r"," ","i","t","7"," ","b","y"," ","b","o","b","!">>,
     <<"1",":","1","7",".","8","7","0"," ","f","o","r"," ","I","T","7"," ","b","y"," ","B","o","b"," ","-"," ","T","r","a","c","k"," ","R","e","c","o","r","d">>,
     <<" ","(","1",":","1","7",".","8","7","0",")"," ","f","o","r"," ","I","T","7"," ","b","y"," ","B","o","b"," ","!"," ">>,
     <<"1",":","1","7",".","8","7","0"," ","f","o","r"," ","I","T","7"," ","b","y">>,
     <<"T","h","i","s"," ","i","s"," ","n","o","t"," ","r","e","l","e","v","a","n","t"," ","t","e","x","t">>,
     <<"(","1",":","1","7",".","8","7","0",")"," ","f","o","r"," ","I","T","7"," ","b","y"," ","B","o","b"," ","C","r","o","s","s">>,
     <<" ">>,
     <<>>}

\* Texts with a phrase of the deny-list, or a word that contains one.
DeniedTexts ==
    {b \o s :
        b \in {<<"N","e","w"," ","T","r","a","c","k"," ","R","e","c","o","r","d"," ","(","1",":","1","7",".","8","7","0",")"," ","f","o","r"," ","I","T","7"," ","b","y"," ","B","o","b"," ","C","r","o","s","s">>,
               <<"T","r","a","c","k"," ","R","e","c","o","r","d"," ","-"," ","I","T","7"," ","-"," ","1",":","1","7",".","8","7","0"," ","-"," ","B","o","b">>,
               <<"L","a","p"," ","o","f"," ","t","h","e"," ","d","a","y">>},
        s \in {<<" ","u","n","o","f","f","i","c","i","a","l">>, <<" ","(","E","x","h","i","b","i","t","i","o","n",")">>, <<" ","n","o","t"," "," ","c","o","u","n","t","e","d">>, <<" ","N","O","T"," ","R","E","C","O","G","N","I","Z","E","D">>,
               <<" ","u","n","o","f","f","i","c","i","a","l","l","y">>, <<" ","a","t"," ","t","h","e"," ","e","x","h","i","b","i","t","i","o","n","s">>}}

Texts ==
    ForByTexts \cup NoParenTexts \cup PrimaryTexts \cup AlternateTexts
    \cup LooseTexts \cup DeniedTexts \cup {None, NotAStr}

\* The metadata the caller attaches to a row.
Metas ==
    {[eventDate |-> None, trackName |-> <<"W","H">>],
     [eventDate |-> <<"2","0","2","0","-","0","1","-","0","1">>, trackName |-> <<"W","H">>],
     [eventDate |-> None, trackName |-> None]}

Row(text, meta) == [text |-> text, eventDate |-> meta.eventDate, trackName |-> meta.trackName]

Rows == {Row(text, meta) : text \in Texts, meta \in Metas}

NoRow == Row(None, [eventDate |-> None, trackName |-> None])

\* Candidates handed to the validator directly.
Candidates ==
    {TrackRecord(d, l, tr, None, v, c) :
        d  \in {<<"B","o","b">>, <<" ">>, <<>>, None},
        l  \in {<<"1",":","1","7",".","8","7","0">>, <<"6","1",".","8","6","1">>, None},
        tr \in {<<"W","H">>, <<" ">>, <<>>, None},
        v  \in {None, <<"F","o","r","d">>, <<"1",":","1","7",".","8","7","0">>},
        c  \in {<<"I","T","7">>, <<" ">>, <<>>}}

\* Lap times of exported records: M:SS.mmm and MM:SS.mmm strings, and bare
\* numbers of seconds.
LapTexts ==
    {m \o <<":">> \o s \o <<".">> \o f :
        m \in {<<"0">>, <<"1">>, <<"0","1">>, <<"5","9">>, <<"6","0">>, <<"9","9">>},
        s \in {<<"0","0">>, <<"1","7">>, <<"5","9">>, <<"7","5">>},
        f \in {<<"0","0","0">>, <<"8","7","0">>, <<"9","9","9">>}}
    \cup {<<"0">>, <<"7">>, <<"6","1",".","8","6","1">>, <<"1","2","5",".","0">>, <<"1","2","5">>, <<"5","9",".","9","9","9","6">>, <<"5","9",".","9","9","9","4">>,
          <<"3","5","9","9",".","9","9","9","6">>, <<"5","9","9","9",".","9","9","9">>, <<"6","0","0","0",".","0">>, <<" ","6","1",".","8","6","1"," ">>, <<".","5">>, <<"5",".">>,
          <<"0",":","0","1",":","1","7",".","8","7","0">>, <<"1",":","1","7",".","8","7">>, <<"1",":","7",".","8","7","0">>, <<"a","b","c">>, <<"1",":","1","7",":","8","7","0">>, <<>>}

\* The rows the concurrent callers pass: a record, a text the gate refuses
\* and a record whose driver carries a grid-position marker.
ThreadRows ==
    {Row(text, [eventDate |-> <<"2","0","2","4","-","0","5","-","1","0">>, trackName |-> <<"W","H">>]) : text \in
        {<<"N","e","w"," ","T","r","a","c","k"," ","R","e","c","o","r","d"," ","(","1",":","1","7",".","8","7","0",")"," ","f","o","r"," ","I","T","7"," ","b","y"," ","B","o","b"," ","C","r","o","s","s">>,
         <<"U","n","o","f","f","i","c","i","a","l"," ","t","r","a","c","k"," ","r","e","c","o","r","d"," ","(","1",":","1","7",".","8","7","0",")"," ","f","o","r"," ","I","T","7"," ","b","y"," ","B","o","b"," ","C","r","o","s","s">>,
         <<"N","e","w"," ","T","r","a","c","k"," ","R","e","c","o","r","d"," ","(","1",":","1","7",".","8","7","0",")"," ","f","o","r"," ","I","T","7"," ","b","y"," ","[","1","]"," ","K","a","y">>}}
-----------------------------------------------------------------------------
(* parse_track_record_text (utils/track_records.py).                       *)

\* The length of the run of [0-9:.] from position i.
RECURSIVE TimeCharRun(_, _)
TimeCharRun(t, i) ==
    IF IsDigit(At(t, i)) \/ At(t, i) \in {":", "."} THEN 1 + TimeCharRun(t, i + 1) ELSE 0

\* The length of the run of [^\s] from position i.
RECURSIVE NonSpaceRun(_, _)
NonSpaceRun(t, i) ==
    IF i <= Len(t) /\ ~IsSpace(t[i]) THEN 1 + NonSpaceRun(t, i + 1) ELSE 0

\* (.+?)\.?$ from position ds: the position after the lazy group, or 0.
LazyToDotEnd(t, ds) ==
    IF ds < 1 THEN 0
    ELSE MinOrZero({e \in (ds + 1)..(Len(t) + 1) :
                       /\ \A j \in ds..(e - 1) : IsDot(t[j])
                       /\ \/ e = Len(t) + 1
                          \/ e = Len(t) /\ t[e] \in {".", "\n"}
                          \/ e + 1 = Len(t) /\ t[e] = "." /\ t[e + 1] = "\n"})

\* _RE_TRACK at position s: the groups <<lap_time, classification, block>>.
RE_TRACK_At(t, s) ==
    LET Groups(a, c, f, ce, ds, e) ==
            IF e = 0 THEN NoMatch
            ELSE Matched(<<Slice(t, a + 1, c), Slice(t, f, ce), Slice(t, ds, e)>>)
        Start(a, c, f, ce, ds) == Groups(a, c, f, ce, ds, LazyToDotEnd(t, ds))
        \* by\s+ is greedy, and gives spaces back to the driver group when
        \* nothing else is left for it: w is the first space after "by".
        Driver(a, c, f, ce, w) ==
            LET starts == {ds \in (w + 1)..SkipWs(t, w) : LazyToDotEnd(t, ds) # 0}
            IN  IF w = 0 \/ starts = {} THEN NoMatch ELSE Start(a, c, f, ce, MaxOf(starts))
        By(g) == IF LitAt(t, g, <<"b","y">>) /\ IsSpace(At(t, g + 2)) THEN g + 2 ELSE 0
        ClassEnd(a, c, f, ce) ==
            IF ce > f /\ IsSpace(At(t, ce)) THEN Driver(a, c, f, ce, By(SkipWs(t, ce)))
            ELSE NoMatch
        Class(a, c, f) == IF f = 0 THEN NoMatch ELSE ClassEnd(a, c, f, f + NonSpaceRun(t, f))
        For(d) == IF LitAt(t, d, <<"f","o","r">>) /\ IsSpace(At(t, d + 3))
                  THEN SkipWs(t, d + 3) ELSE 0
        Close(a, c) ==
            IF c > a + 1 /\ At(t, c) = ")" THEN Class(a, c, For(SkipWs(t, c + 1)))
            ELSE NoMatch
        Open(a) == IF At(t, a) = "(" THEN Close(a, a + 1 + TimeCharRun(t, a + 1)) ELSE NoMatch
    IN  IF LitAt(t, s, <<"n","e","w"," ","t","r","a","c","k"," ","r","e","c","o","r","d">>) \/ LitAt(t, s, <<"n","e","w"," ","c","l","a","s","s"," ","r","e","c","o","r","d">>)
        THEN Open(SkipWs(t, s + 16)) ELSE NoMatch

RE_TRACK(t) == SearchFirst([s \in 1..Len(t) |-> RE_TRACK_At(t, s)])

\* re.search(r"^(.+?)\s+in\s+(.+)$", block, IGNORECASE): the groups.
SplitMarque(block) ==
    LET Marque(ms) ==
            IF ms # 0 /\ ms <= Len(block) /\ \A j \in ms..Len(block) : IsDot(block[j])
            THEN ms ELSE 0
        In(x) == IF LitAt(block, x, <<"i","n">>) /\ IsSpace(At(block, x + 2))
                 THEN SkipWs(block, x + 2) ELSE 0
        \* where the marque starts when the driver ends at k, or 0
        MarqueStart(k) ==
            IF IsSpace(At(block, k + 1)) THEN Marque(In(SkipWs(block, k + 1))) ELSE 0
        Groups(k, ms) == Matched(<<SubSeq(block, 1, k), Slice(block, ms, Len(block) + 1)>>)
        Split(k) == IF k = 0 THEN NoMatch ELSE Groups(k, MarqueStart(k))
    IN  Split(MinOrZero({k \in 1..Len(block) :
                            /\ \A j \in 1..k : IsDot(block[j])
                            /\ MarqueStart(k) # 0}))

\* str.rstrip('.')
RECURSIVE RStripDots(_)
RStripDots(t) ==
    IF t # <<>> /\ t[Len(t)] = "." THEN RStripDots(SubSeq(t, 1, Len(t) - 1)) ELSE t

\* re.sub(r"^\s*\[\s*\d+\s*\]\s*", "", name): a leading marker removed.
StripLeadingMarker(name) ==
    LET Cut(e) == IF e # 0 THEN Slice(name, e, Len(name) + 1) ELSE name
    IN  Cut(MarkerEnd(name, SkipWs(name, 1)))

\* sub in text.lower()
ContainsLower(t, sub) == \E s \in 1..Len(t) : LitAt(t, s, sub)

Provisional(t) ==
    \/ ContainsLower(t, <<"t","o"," ","b","e"," ","c","o","n","f","i","r","m","e","d">>)
    \/ ContainsLower(t, <<"n","o","t"," ","a"," ","t","r","a","c","k"," ","r","e","c","o","r","d">>)
    \/ ContainsLower(t, <<"n","o","t"," ","a"," ","c","l","a","s","s"," ","r","e","c","o","r","d">>)

\* A variant that keeps the grid-position marker in the driver name.
parse_track_record_text_keep_marker(text) ==
    LET Record(m, block, mm) ==
            << [classification |-> m.g[2], lap_time |-> m.g[1],
                driver |-> IF mm.ok THEN Strip(mm.g[1]) ELSE block,
                marque |-> IF mm.ok THEN RStripDots(Strip(mm.g[2])) ELSE None] >>
        Block(m, block) == Record(m, block, SplitMarque(block))
        Match(m) == IF ~m.ok THEN <<>>
                    ELSE IF Provisional(text) THEN <<>>
                    ELSE Block(m, Strip(m.g[3]))
    IN  IF ~Truthy(text) THEN <<>> ELSE Match(RE_TRACK(Strip(text)))

\* The dict returned, or <<>> for None.
parse_track_record_text(text) ==
    LET Record(m, block, mm) ==
            << [classification |-> m.g[2], lap_time |-> m.g[1],
                driver |-> StripLeadingMarker(IF mm.ok THEN Strip(mm.g[1]) ELSE block),
                marque |-> IF mm.ok THEN RStripDots(Strip(mm.g[2])) ELSE None] >>
        Block(m, block) == Record(m, block, SplitMarque(block))
        Match(m) == IF ~m.ok THEN <<>>
                    ELSE IF Provisional(text) THEN <<>>
                    ELSE Block(m, Strip(m.g[3]))
    IN  IF ~Truthy(text) THEN <<>> ELSE Match(RE_TRACK(Strip(text)))

\* _find_records_in_announcements for one announcement that is a str: the
\* fields of the record yielded that parse_track_record_text returns too, or
\* <<>> when the announcement is passed over.  The pattern is searched in
\* the text as it is.
find_records_in_announcements(text) ==
    LET Record(m, block, mm) ==
            << [classification |-> m.g[2], lap_time |-> m.g[1],
                driver |-> StripLeadingMarker(IF mm.ok THEN Strip(mm.g[1]) ELSE block),
                marque |-> IF mm.ok THEN RStripDots(Strip(mm.g[2])) ELSE None] >>
        Block(m, block) == Record(m, block, SplitMarque(block))
        Match(m) == IF ~m.ok THEN <<>>
                    ELSE IF Provisional(text) THEN <<>>
                    ELSE Block(m, Strip(m.g[3]))
    IN  IF ~Truthy(text) THEN <<>> ELSE Match(RE_TRACK(text))

-----------------------------------------------------------------------------
(* The caller: validation outcome, exception path and export.              *)

\* str(int(n))
RECURSIVE Decimal(_)
Decimal(n) == IF n < 10 THEN Pad(n, 1) ELSE Decimal(n \div 10) \o Pad(n % 10, 1)

\* float(s) for a plain decimal "[digits][.][digits]", as a number of
\* ten-thousandths of a second, or -1 where float() raises ValueError.  The
\* other spellings float() accepts (signs, exponents, "inf") are not among
\* the lap times of the candidates.
FloatTicks(s) ==
    LET \* The first four decimals of the fraction; further digits are below
        \* the resolution of the model.
        Fraction(f) == Num(SubSeq(f \o <<"0","0","0","0">>, 1, 4))
        Value(w, f) ==
            IF /\ w # <<>> \/ f # <<>>
               /\ \A j \in 1..Len(w) : IsDigit(w[j])
               /\ \A j \in 1..Len(f) : IsDigit(f[j])
            THEN Num(w) * 10000 + Fraction(f)
            ELSE -1
        Split(k) == Value(IF k = 0 THEN s ELSE SubSeq(s, 1, k - 1),
                          IF k = 0 THEN <<>> ELSE SubSeq(s, k + 1, Len(s)))
    IN  Split(IndexOf(s, "."))

\* f"{sec:06.3f}": the seconds rounded to the nearest thousandth (the
\* inputs have no tie), two integer digits at least.
FormatSec(ticks) ==
    LET Rounded(ms) == Decimal(ms \div 1000) \o <<".">> \o Pad(ms % 1000, 3)
        Padded(txt) == IF Len(txt) < 6 THEN <<"0">> \o txt ELSE txt
    IN  Padded(Rounded((ticks + 5) \div 10))

\* minutes, sec = divmod(seconds, 60.0); f"{int(minutes)}:{sec:06.3f}"
format_seconds_to_lap_time(ticks) ==
    Decimal(ticks \div 600000) \o <<":">> \o FormatSec(ticks % 600000)

\* _normalize_lap_time_str
normalize_lap_time_str(value) ==
    LET Seconds(s, ticks) == IF ticks >= 0 THEN format_seconds_to_lap_time(ticks) ELSE s
        Text(s) == IF CanonicalLapTime(s) THEN s ELSE Seconds(s, FloatTicks(s))
    IN  IF value = None THEN <<>> ELSE Text(Strip(value))

\* _record_to_camel_dict
record_to_camel_dict(r) ==
    [classAbbreviation |-> IF Truthy(r.class_name) THEN r.class_name ELSE <<>>,
     lapTime |-> normalize_lap_time_str(r.lap_time),
     driverName |-> IF Truthy(r.driver_name) THEN r.driver_name ELSE <<>>,
     marque |-> r.vehicle,
     date |-> r.date,
     trackName |-> r.track_name]

\* The orchestration policy: a candidate is accepted when the validator
\* accepts it, or when its only failure is "Missing classAbbreviation", in
\* which case its class is rewritten to the empty string.
Accept(opt, v) ==
    IF v.ok THEN << record_to_camel_dict(opt[1]) >>
    ELSE IF v.reason = "Missing classAbbreviation"
         THEN << record_to_camel_dict([opt[1] EXCEPT !.class_name = <<>>]) >>
    ELSE <<>>

-----------------------------------------------------------------------------
(* parse_lap_time_to_seconds (utils.py).                                   *)

\* t.split(c): the pieces between the occurrences of character c.
SplitOn(t, c) ==
    LET Pieces(at, n) ==
            SubSeq([k \in 1..(n + 1) |->
                       Slice(t, IF k = 1 THEN 1 ELSE at[k - 1] + 1,
                                IF k = n + 1 THEN Len(t) + 1 ELSE at[k])],
                   1, n + 1)
        Cuts(at) == Pieces(at, Len(at))
    IN  Cuts(SelectSeq([i \in 1..Len(t) |-> i], LAMBDA i : t[i] = c))

AllDigits(t) == \A j \in 1..Len(t) : IsDigit(t[j])

\* \d{lo,hi}(?:\.\d+)? matching the whole of x.
DecimalField(x, lo, hi) ==
    LET Parts(p) ==
            /\ Len(p) \in {1, 2}
            /\ Len(p[1]) >= lo /\ Len(p[1]) <= hi /\ AllDigits(p[1])
            /\ Len(p) = 2 => (p[2] # <<>> /\ AllDigits(p[2]))
    IN  Parts(SplitOn(x, "."))

\* [0-5]?\d matching the whole of x.
MinutesField(x) ==
    /\ Len(x) \in {1, 2} /\ AllDigits(x)
    /\ Len(x) = 2 => x[1] \in {"0", "1", "2", "3", "4", "5"}

\* What a call of parse_lap_time_to_seconds ends in: the seconds, as a
\* number of ten-thousandths, or ValueError.
LapSeconds(kind, ticks) == [kind |-> kind, ticks |-> ticks]

\* The three alternatives of _LAP_TIME_RX are anchored at both ends and
\* differ in their number of colons.
parse_lap_time_to_seconds(value) ==
    LET Fields(p) ==
            IF Len(p) = 3 /\ p[1] # <<>> /\ AllDigits(p[1]) /\ MinutesField(p[2])
                          /\ DecimalField(p[3], 1, 2)
            THEN LapSeconds("value", Num(p[1]) * 36000000 + Num(p[2]) * 600000 + FloatTicks(p[3]))
            ELSE IF Len(p) = 2 /\ MinutesField(p[1]) /\ DecimalField(p[2], 1, 2)
            THEN LapSeconds("value", Num(p[1]) * 600000 + FloatTicks(p[2]))
            ELSE IF Len(p) = 1 /\ DecimalField(p[1], 1, Len(p[1]))
            THEN LapSeconds("value", FloatTicks(p[1]))
            ELSE LapSeconds("raise", 0)
    IN  IF value = None THEN LapSeconds("raise", 0) ELSE Fields(SplitOn(Strip(value), ":"))

-----------------------------------------------------------------------------
(* The state machine: one announcement row, or one candidate, is taken     *)
(* through the calls the caller makes on it.                               *)

NoOutcome == Outcome("unset", 0, NoRecord, "none")

NoVerdict == Verdict(FALSE, "unset")

\* Concurrent callers: each thread calls parse_track_record_announcement and
\* then is_record_valid on the row it was given.  The local variables of a
\* call live in the frame of that call; calls holds what each thread passed
\* and what was returned to it.
Threads == 1..MaxThreads

\* A variant in which every call works in one frame kept on the client.
SharedSlot(t) == 1

\* The frame a thread's call runs in: Python gives every call its own.
Slot(t) == t

Call(at, arg, ret, ver) == [pc |-> at, arg |-> arg, ret |-> ret, verdict |-> ver]

NoCalls == [t \in Threads |-> Call("idle", NoRow, NoOutcome, NoVerdict)]

NoFrames ==
    [s \in {Slot(t) : t \in Threads} |->
        [row |-> NoRow, ret |-> NoOutcome, verdict |-> NoVerdict]]

Init ==
    /\ \/ row \in Rows /\ cand = <<>> /\ pc = "row"
       \/ row = NoRow /\ cand \in {<<c>> : c \in Candidates \cup
                              {TrackRecord(<<"B","o","b">>, l, <<"W","H">>, None, None, <<"I","T","7">>) : l \in LapTexts}}
          /\ pc = "candidate"
    /\ detected = "unset"
    /\ result = NoOutcome
    /\ textResult = <<>>
    /\ verdict = NoVerdict
    /\ out = <<>>
    /\ seconds = LapSeconds("unset", 0)
    /\ looks = "unset"
    /\ calls = NoCalls
    /\ frames = NoFrames
    /\ pages = "idle"
    /\ fastest = "idle"
    /\ offs = "idle"
    /\ http = "idle"
    /\ both = "idle"
    /\ poll = "idle"
    /\ life = "idle"

\* client.find_track_record_announcements(r.get("text"))
Detect ==
    /\ pc = "row"
    /\ row.text # NotAStr
    /\ detected' = IF find_track_record_announcements(row.text) THEN "true" ELSE "false"
    /\ pc' = "detected"
    /\ UNCHANGED <<row, cand, result, textResult, verdict, out, seconds, looks,
          calls, frames, pages, fastest, offs, http, both, poll, life>>

\* tr = client.parse_track_record_announcement(row)
ParseAnnouncement ==
    /\ pc = "row"
    /\ result' = parse_track_record_announcement(row)
    /\ cand' = IF result'.kind = "record" THEN <<result'.rec>> ELSE <<>>
    /\ pc' = IF result'.kind = "raise" THEN "raised" ELSE "parsed"
    /\ UNCHANGED <<row, detected, textResult, verdict, out, seconds, looks, calls,
          frames, pages, fastest, offs, http, both, poll, life>>

\* parsed = parse_track_record_text(row["text"])
ParseText ==
    /\ pc = "row"
    /\ row.text # NotAStr
    /\ textResult' = parse_track_record_text(row.text)
    /\ pc' = "text_parsed"
    /\ UNCHANGED <<row, cand, detected, result, verdict, out, seconds, looks, calls,
          frames, pages, fastest, offs, http, both, poll, life>>

\* ok, reason = client.is_record_valid(tr)
Validate ==
    /\ pc \in {"parsed", "candidate"}
    /\ verdict' = is_record_valid(cand)
    /\ pc' = "validated"
    /\ UNCHANGED <<row, cand, detected, result, textResult, out, seconds, looks,
          calls, frames, pages, fastest, offs, http, both, poll, life>>

\* The caller accepts or drops the candidate.
Emit ==
    /\ pc = "validated"
    /\ out' = Accept(cand, verdict)
    /\ pc' = "done"
    /\ UNCHANGED <<row, cand, detected, result, textResult, verdict, seconds, looks,
          calls, frames, pages, fastest, offs, http, both, poll, life>>

\* export_records_to_json_camel: every record given is exported, unvalidated.
ExportCamel ==
    /\ pc = "candidate"
    /\ out' = <<record_to_camel_dict(cand[1])>>
    /\ pc' = "exported"
    /\ UNCHANGED <<row, cand, detected, result, textResult, verdict, seconds, looks,
          calls, frames, pages, fastest, offs, http, both, poll, life>>

\* seconds = parse_lap_time_to_seconds(result["lapTime"])
TimeSeconds ==
    /\ pc = "exported"
    /\ seconds' = parse_lap_time_to_seconds(out[1].lapTime)
    /\ pc' = "timed"
    /\ UNCHANGED <<row, cand, detected, result, textResult, verdict, out, looks,
          calls, frames, pages, fastest, offs, http, both, poll, life>>

\* A caller asks, for a row it has parsed, whether the text is a record
\* without its prefix, to log it as malformed.
LooksLike ==
    /\ pc = "parsed"
    /\ looks' = IF looks_like_record_without_prefix(row.text) THEN "true" ELSE "false"
    /\ pc' = "looked"
    /\ UNCHANGED <<row, cand, detected, result, textResult, verdict, out, seconds,
          calls, frames, pages, fastest, offs, http, both, poll, life>>

Next ==
    \/ Detect \/ ParseAnnouncement \/ ParseText \/ Validate \/ Emit
    \/ ExportCamel \/ TimeSeconds \/ LooksLike

Spec == Init /\ [][Next]_vars

-----------------------------------------------------------------------------
(* Several threads share one client and call it with no locking.           *)

InitThreads ==
    /\ row = NoRow /\ cand = <<>> /\ pc = "threads"
    /\ detected = "unset"
    /\ result = NoOutcome
    /\ textResult = <<>>
    /\ verdict = NoVerdict
    /\ out = <<>>
    /\ seconds = LapSeconds("unset", 0)
    /\ looks = "unset"
    /\ calls = NoCalls
    /\ frames = NoFrames
    /\ pages = "idle"
    /\ fastest = "idle"
    /\ offs = "idle"
    /\ http = "idle"
    /\ both = "idle"
    /\ poll = "idle"
    /\ life = "idle"

\* A thread calls client.parse_track_record_announcement(row): the argument
\* is bound in the new frame.
Enter(t) ==
    /\ calls[t].pc \in {"idle", "done"}
    /\ \E r \in ThreadRows :
          /\ calls' = [calls EXCEPT ![t] = Call("entered", r, NoOutcome, NoVerdict)]
          /\ frames' = [frames EXCEPT ![Slot(t)] =
                          [row |-> r, ret |-> NoOutcome, verdict |-> NoVerdict]]
    /\ UNCHANGED <<row, cand, pc, detected, result, textResult, verdict, out,
          seconds, looks, pages, fastest, offs, http, both, poll, life>>

\* The body of parse_track_record_announcement runs on the frame's row.
ThreadParse(t) ==
    /\ calls[t].pc = "entered"
    /\ frames' = [frames EXCEPT ![Slot(t)].ret =
                     parse_track_record_announcement(frames[Slot(t)].row)]
    /\ calls' = [calls EXCEPT ![t].pc = "parsed"]
    /\ UNCHANGED <<row, cand, pc, detected, result, textResult, verdict, out,
          seconds, looks, pages, fastest, offs, http, both, poll, life>>

\* ok, reason = client.is_record_valid(tr) on what the parse returned.
ThreadValidate(t) ==
    /\ calls[t].pc = "parsed"
    /\ frames' = [frames EXCEPT ![Slot(t)].verdict =
                     is_record_valid(IF frames[Slot(t)].ret.kind = "record"
                                     THEN <<frames[Slot(t)].ret.rec>> ELSE <<>>)]
    /\ calls' = [calls EXCEPT ![t].pc = "validated"]
    /\ UNCHANGED <<row, cand, pc, detected, result, textResult, verdict, out,
          seconds, looks, pages, fastest, offs, http, both, poll, life>>

\* The record and the (bool, reason) pair are handed to the caller and the
\* frame is dropped.
ThreadReturn(t) ==
    /\ calls[t].pc = "validated"
    /\ calls' = [calls EXCEPT ![t] = Call("done", calls[t].arg, frames[Slot(t)].ret,
                                          frames[Slot(t)].verdict)]
    /\ frames' = [frames EXCEPT ![Slot(t)] = NoFrames[Slot(t)]]
    /\ UNCHANGED <<row, cand, pc, detected, result, textResult, verdict, out,
          seconds, looks, pages, fastest, offs, http, both, poll, life>>

NextThreads ==
    \E t \in Threads :
        \/ Enter(t) \/ ThreadParse(t) \/ ThreadValidate(t) \/ ThreadReturn(t)

SpecThreads == InitThreads /\ [][NextThreads]_vars

-----------------------------------------------------------------------------
(* list_organization_events on the "orgs" path family: _paginate_pages     *)
(* (client.py).  The server's answers are not the program's: every request *)
(* may be answered by any response of PageResponses.                       *)

\* An item of a page: an event dict, or something that is not a dict.
Item(id, dict) == [id |-> id, dict |-> dict]

\* What _get can return for page p, or raise: a dict with "items" and
\* "totalPages" (0: the key is missing, null or 0), a bare list, a JSON value
\* that is neither, or SpeedHiveAPIError.
PageResponses(p) ==
    {[kind |-> "dict", items |-> its, total |-> t] :
        its \in {<<>>, <<Item(10 * p + 1, TRUE)>>,
                 <<Item(10 * p + 1, TRUE), Item(10 * p + 2, FALSE), Item(10 * p + 3, TRUE)>>},
        t \in 0..MaxPage}
    \cup {[kind |-> k, items |-> its, total |-> 0] :
            k \in {"list"}, its \in {<<>>, <<Item(10 * p + 1, TRUE)>>}}
    \cup {[kind |-> k, items |-> <<>>, total |-> 0] : k \in {"other", "error"}}

\* A variant of the loop's step that leaves out every other page.
SkipPage(p) == p + 2

\* for page in range(start_page + 1, int(total_pages) + 1): the page after p.
NextPageNo(p) == p + 1

InitPages ==
    /\ row = NoRow
    /\ cand = <<>>
    /\ pc = "idle"
    /\ detected = "unset"
    /\ result = NoOutcome
    /\ textResult = <<>>
    /\ verdict = NoVerdict
    /\ out = <<>>
    /\ seconds = LapSeconds("unset", 0)
    /\ looks = "unset"
    /\ calls = NoCalls
    /\ frames = NoFrames
    /\ pages = [pc |-> "idle", auto |-> FALSE, start |-> 1, page |-> 1, total |-> 1,
                asked |-> <<>>, got |-> <<>>, all |-> <<>>, events |-> <<>>]
    /\ fastest = "idle"
    /\ offs = "idle"
    /\ http = "idle"
    /\ both = "idle"
    /\ poll = "idle"
    /\ life = "idle"

\* client.list_organization_events(org_id, page=..., auto_paginate=...):
\* start_p = page or 1.
ListEvents ==
    /\ pages.pc = "idle"
    /\ \E page \in 0..2, auto \in BOOLEAN :
          pages' = [pages EXCEPT !.pc = "first", !.auto = auto,
                                 !.start = IF page = 0 THEN 1 ELSE page]
    /\ UNCHANGED <<row, cand, pc, detected, result, textResult, verdict, out,
          seconds, looks, calls, frames, fastest, offs, http, both, poll,
          life>>

\* _paginate_pages: the first request, which tells totalPages.
FirstPage ==
    /\ pages.pc = "first"
    /\ \E d \in PageResponses(pages.start) :
          pages' = [pages EXCEPT
                      !.asked = <<pages.start>>,
                      !.got = <<d>>,
                      !.all = IF d.kind \in {"dict", "list"} THEN d.items ELSE <<>>,
                      !.total = IF d.total = 0 THEN 1 ELSE d.total,
                      !.page = NextPageNo(pages.start),
                      !.pc = CASE d.kind = "error" -> "raised"
                               [] d.kind = "dict" -> "loop"
                               [] OTHER -> "collected"]
    /\ UNCHANGED <<row, cand, pc, detected, result, textResult, verdict, out,
          seconds, looks, calls, frames, fastest, offs, http, both, poll,
          life>>

\* _paginate_pages: one iteration of the loop over the remaining pages.
NextPage ==
    /\ pages.pc = "loop"
    /\ pages.page <= pages.total
    /\ \E d \in PageResponses(pages.page) :
          pages' = [pages EXCEPT
                      !.asked = Append(pages.asked, pages.page),
                      !.got = Append(pages.got, d),
                      !.all = IF d.kind \in {"dict", "list"} THEN pages.all \o d.items
                              ELSE pages.all,
                      !.page = NextPageNo(pages.page),
                      !.pc = CASE d.kind = "error" -> "raised"
                               [] d.kind = "dict" /\ d.items # <<>> -> "loop"
                               [] OTHER -> "collected"]
    /\ UNCHANGED <<row, cand, pc, detected, result, textResult, verdict, out,
          seconds, looks, calls, frames, fastest, offs, http, both, poll,
          life>>

\* The loop ends, and list_organization_events maps the raw dicts to
\* EventResult; an item that is not a dict is skipped.
ReturnEvents ==
    /\ \/ pages.pc = "collected"
       \/ pages.pc = "loop" /\ pages.page > pages.total
    /\ pages' = [pages EXCEPT !.pc = "done",
                              !.events = SelectSeq(pages.all, LAMBDA it : it.dict)]
    /\ UNCHANGED <<row, cand, pc, detected, result, textResult, verdict, out,
          seconds, looks, calls, frames, fastest, offs, http, both, poll,
          life>>

NextPages == ListEvents \/ FirstPage \/ NextPage \/ ReturnEvents

SpecPages == InitPages /\ [][NextPages]_vars

-----------------------------------------------------------------------------
(* get_fastest_records.main: the records found in the announcements are    *)
(* filtered by --classification, grouped by classification and reported.  *)

\* str.upper()
upper(t) ==
    [i \in 1..Len(t) |-> IF t[i] \in LowerLetters
                         THEN CHOOSE u \in UpperLetters : LowerOf[u] = t[i]
                         ELSE t[i]]

\* prev is None or (r seconds is not None and (prev seconds is None or
\* r seconds < prev seconds)), for a prev that is not None.
Faster(r, prev) ==
    /\ r.lap_time_seconds # -1
    /\ prev.lap_time_seconds = -1 \/ r.lap_time_seconds < prev.lap_time_seconds

\* The records _find_records_in_announcements yields, in file order:
\* classification, lap_time_seconds in milliseconds (-1: None), and the
\* position in the file.
InitFastest ==
    /\ row = NoRow
    /\ cand = <<>>
    /\ pc = "idle"
    /\ detected = "unset"
    /\ result = NoOutcome
    /\ textResult = <<>>
    /\ verdict = NoVerdict
    /\ out = <<>>
    /\ seconds = LapSeconds("unset", 0)
    /\ looks = "unset"
    /\ calls = NoCalls
    /\ frames = NoFrames
    /\ \E found \in
          LET Fields == [classification : {<<"I","T","7">>, <<"i","t","7">>, <<"S","M">>}, lap_time_seconds : {-1, 70000, 77870}]
              Numbered(s) == [i \in 1..Len(s) |-> [classification |-> s[i].classification,
                                                  lap_time_seconds |-> s[i].lap_time_seconds,
                                                  at |-> i]]
          IN  {Numbered(s) : s \in UNION {[1..n -> Fields] : n \in 0..MaxRecords}},
          arg \in {<<>>, <<"i","t","7">>, <<"S","M">>} :
          fastest = [pc |-> "collect", arg |-> arg, found |-> found, i |-> 1,
                     records |-> <<>>, fastest_by_class |-> <<>>, reported |-> <<>>, rc |-> -1]
    /\ pages = "idle"
    /\ offs = "idle"
    /\ http = "idle"
    /\ both = "idle"
    /\ poll = "idle"
    /\ life = "idle"

\* for rec in _find_records_in_announcements(...): a record of another
\* classification than --classification, compared in upper case, is left out.
Collect ==
    /\ fastest.pc = "collect"
    /\ fastest.i <= Len(fastest.found)
    /\ LET rec == fastest.found[fastest.i]
           skip == fastest.arg # <<>> /\ upper(rec.classification) # upper(fastest.arg)
       IN  fastest' = [fastest EXCEPT !.i = fastest.i + 1,
                                      !.records = IF skip THEN fastest.records
                                                  ELSE Append(fastest.records, rec)]
    /\ UNCHANGED <<row, cand, pc, detected, result, textResult, verdict, out,
          seconds, looks, calls, frames, pages, offs, http, both, poll,
          life>>

\* if not records: "No track records found in exported data", return 1
Collected ==
    /\ fastest.pc = "collect"
    /\ fastest.i > Len(fastest.found)
    /\ fastest' = IF fastest.records = <<>>
                  THEN [fastest EXCEPT !.pc = "returned", !.rc = 1]
                  ELSE [fastest EXCEPT !.pc = "group", !.i = 1]
    /\ UNCHANGED <<row, cand, pc, detected, result, textResult, verdict, out,
          seconds, looks, calls, frames, pages, offs, http, both, poll,
          life>>

\* for r in records: fastest_by_class[cls] = r when there is no record of
\* cls yet or r is faster.  The dict keeps its keys in insertion order.
Group ==
    /\ fastest.pc = "group"
    /\ fastest.i <= Len(fastest.records)
    /\ LET r == fastest.records[fastest.i]
           d == fastest.fastest_by_class
           at == {k \in 1..Len(d) : d[k].classification = r.classification}
       IN  fastest' = [fastest EXCEPT
                         !.i = fastest.i + 1,
                         !.fastest_by_class =
                             IF at = {} THEN Append(d, r)
                             ELSE [k \in 1..Len(d) |->
                                      IF k \in at /\ Faster(r, d[k]) THEN r ELSE d[k]]]
    /\ UNCHANGED <<row, cand, pc, detected, result, textResult, verdict, out,
          seconds, looks, calls, frames, pages, offs, http, both, poll,
          life>>

\* With --classification the first key equal to it in upper case is
\* reported; without it every classification is printed.
Report ==
    /\ fastest.pc = "group"
    /\ fastest.i > Len(fastest.records)
    /\ LET d == fastest.fastest_by_class
           hits == {k \in 1..Len(d) : upper(d[k].classification) = upper(fastest.arg)}
       IN  fastest' =
             IF fastest.arg = <<>> THEN [fastest EXCEPT !.pc = "returned", !.rc = 0, !.reported = d]
             ELSE IF hits = {} THEN [fastest EXCEPT !.pc = "returned", !.rc = 1]
             ELSE [fastest EXCEPT !.pc = "returned", !.rc = 0,
                                  !.reported = <<d[MinOf(hits)]>>]
    /\ UNCHANGED <<row, cand, pc, detected, result, textResult, verdict, out,
          seconds, looks, calls, frames, pages, offs, http, both, poll,
          life>>

NextFastest == Collect \/ Collected \/ Group \/ Report

SpecFastest == InitFastest /\ [][NextFastest]_vars

-----------------------------------------------------------------------------
(* _paginate_offset (client.py): the generator behind the offset/count    *)
(* endpoints.  A step is one request or one item handed to the consumer.  *)

\* max_items is not None and yielded >= max_items (None is -1)
AtLimit(max_items, yielded) == max_items # -1 /\ yielded >= max_items

InitOffset ==
    /\ row = NoRow
    /\ cand = <<>>
    /\ pc = "idle"
    /\ detected = "unset"
    /\ result = NoOutcome
    /\ textResult = <<>>
    /\ verdict = NoVerdict
    /\ out = <<>>
    /\ seconds = LapSeconds("unset", 0)
    /\ looks = "unset"
    /\ calls = NoCalls
    /\ frames = NoFrames
    /\ offs = [pc |-> "idle", count |-> 1, max_items |-> -1, start_offset |-> 0, offset |-> 0,
               items |-> <<>>, k |-> 1, asked |-> <<>>, got |-> <<>>, yielded |-> <<>>]
    /\ pages = "idle"
    /\ fastest = "idle"
    /\ http = "idle"
    /\ both = "idle"
    /\ poll = "idle"
    /\ life = "idle"

\* _paginate_offset(path, count=..., start_offset=..., max_items=...)
PaginateOffset ==
    /\ offs.pc = "idle"
    /\ \E count \in 1..2, start_offset \in 0..1, max_items \in -1..3 :
          offs' = [offs EXCEPT !.pc = "fetch", !.count = count, !.max_items = max_items,
                               !.start_offset = start_offset, !.offset = start_offset]
    /\ UNCHANGED <<row, cand, pc, detected, result, textResult, verdict, out,
          seconds, looks, calls, frames, pages, fastest, http, both, poll,
          life>>

\* data = self._get(path, {"count": count, "offset": offset}); a page that
\* is no list or holds nothing ends the loop.  _get returns a list or a dict
\* ("items" / "events" / "rows") of n items, or a JSON value that is
\* neither, or raises SpeedHiveAPIError; an item is named by its offset and
\* its place.  The server answers the MaxRequests-th request with less than
\* a full page.
FetchOffset ==
    /\ offs.pc = "fetch"
    /\ \E d \in
          LET sizes == IF Len(offs.asked) + 1 < MaxRequests THEN 0..offs.count
                       ELSE 0..(offs.count - 1)
          IN  {[kind |-> k, items |-> [i \in 1..n |-> 10 * offs.offset + i]] :
                  k \in {"list", "dict"}, n \in sizes}
              \cup {[kind |-> k, items |-> <<>>] : k \in {"other", "error"}} :
          offs' = [offs EXCEPT
                     !.asked = Append(offs.asked, offs.offset),
                     !.got = Append(offs.got, d),
                     !.items = d.items,
                     !.k = 1,
                     !.pc = CASE d.kind = "error" -> "raised"
                              [] d.items = <<>> -> "done"
                              [] OTHER -> "yield"]
    /\ UNCHANGED <<row, cand, pc, detected, result, textResult, verdict, out,
          seconds, looks, calls, frames, pages, fastest, http, both, poll,
          life>>

\* for it in items: yield it; yielded += 1; return at the limit.  After the
\* last item a short page ends the loop, a full one moves the offset on.
YieldItem ==
    /\ offs.pc = "yield"
    /\ LET yielded == Append(offs.yielded, offs.items[offs.k])
       IN  offs' = [offs EXCEPT
                      !.yielded = yielded,
                      !.k = offs.k + 1,
                      !.offset = IF offs.k = Len(offs.items) /\ Len(offs.items) >= offs.count
                                    /\ ~AtLimit(offs.max_items, Len(yielded))
                                 THEN offs.offset + offs.count ELSE offs.offset,
                      !.pc = CASE AtLimit(offs.max_items, Len(yielded)) -> "done"
                               [] offs.k < Len(offs.items) -> "yield"
                               [] Len(offs.items) < offs.count -> "done"
                               [] OTHER -> "fetch"]
    /\ UNCHANGED <<row, cand, pc, detected, result, textResult, verdict, out,
          seconds, looks, calls, frames, pages, fastest, http, both, poll,
          life>>

NextOffset == PaginateOffset \/ FetchOffset \/ YieldItem

SpecOffset == InitOffset /\ [][NextOffset]_vars

-----------------------------------------------------------------------------
(* SpeedHiveClient._get of the legacy client (speedhive_client.py): GET    *)
(* with retries.  A step is one iteration of its while loop.               *)

\* A variant of the retry test that allows one attempt more.
RetryOnceMore(attempt, max_retries) == attempt <= max_retries

\* attempt < self.max_retries
MayRetry(attempt, max_retries) == attempt < max_retries

InitGet ==
    /\ row = NoRow
    /\ cand = <<>>
    /\ pc = "idle"
    /\ detected = "unset"
    /\ result = NoOutcome
    /\ textResult = <<>>
    /\ verdict = NoVerdict
    /\ out = <<>>
    /\ seconds = LapSeconds("unset", 0)
    /\ looks = "unset"
    /\ calls = NoCalls
    /\ frames = NoFrames
    /\ http = [pc |-> "idle", max_retries |-> 3, attempt |-> 0, log |-> <<>>,
               ret |-> "unset", error |-> "none"]
    /\ pages = "idle"
    /\ fastest = "idle"
    /\ offs = "idle"
    /\ both = "idle"
    /\ poll = "idle"
    /\ life = "idle"

\* SpeedHiveClient(max_retries=...)._get(path): attempt = 0
Get ==
    /\ http.pc = "idle"
    /\ \E max_retries \in -1..MaxRetries :
          http' = [http EXCEPT !.pc = "loop", !.max_retries = max_retries]
    /\ UNCHANGED <<row, cand, pc, detected, result, textResult, verdict, out,
          seconds, looks, calls, frames, pages, fastest, offs, both, poll,
          life>>

\* One iteration: attempt += 1, the request, and what follows from it.
\* session.get raises requests.RequestException or returns a response with
\* a status; a 200 response holds JSON or does not.
Attempt ==
    /\ http.pc = "loop"
    /\ \E a \in {"RequestException", "200 json", "200 invalid", "404",
                  "429", "500", "502", "503", "504"} :
          LET attempt == http.attempt + 1
              retry == /\ a \in {"RequestException", "429", "500", "502", "503", "504"}
                       /\ MayRetry(attempt, http.max_retries)
          IN  http' = [http EXCEPT
                         !.attempt = attempt,
                         !.log = Append(http.log, a),
                         !.pc = CASE retry -> "loop"
                                  [] a = "200 json" -> "returned"
                                  [] OTHER -> "raised",
                         !.ret = IF a = "200 json" THEN "json" ELSE "unset",
                         !.error = IF retry \/ a = "200 json" THEN "none"
                                   ELSE "SpeedHiveError"]
    /\ UNCHANGED <<row, cand, pc, detected, result, textResult, verdict, out,
          seconds, looks, calls, frames, pages, fastest, offs, both, poll,
          life>>

NextGet == Get \/ Attempt

SpecGet == InitGet /\ [][NextGet]_vars

-----------------------------------------------------------------------------
(* One announcement text given to both parsers of exported announcements:  *)
(* parse_track_record_text (extract_track_records_to_csv) and              *)
(* _find_records_in_announcements (get_fastest_records).                   *)

\* Announcement texts as an export holds them: with and without a marque,
\* a grid marker, a provisional note, a prefix or a driver, and with the
\* whitespace and the period a line can begin and end with.
InitBoth ==
    /\ row = NoRow
    /\ cand = <<>>
    /\ pc = "idle"
    /\ detected = "unset"
    /\ result = NoOutcome
    /\ textResult = <<>>
    /\ verdict = NoVerdict
    /\ out = <<>>
    /\ seconds = LapSeconds("unset", 0)
    /\ looks = "unset"
    /\ calls = NoCalls
    /\ frames = NoFrames
    /\ \E text \in
          LET Bodies == {<<"N","e","w"," ","T","r","a","c","k"," ","R","e","c","o","r","d"," ","(","1",":","1","7",".","8","7","0",")"," ","f","o","r"," ","I","T","7"," ","b","y"," ","B","o","b">>,
                         <<"N","e","w"," ","C","l","a","s","s"," ","R","e","c","o","r","d"," ","(","1",":","1","7",".","8","7","0",")"," ","f","o","r"," ","I","T","7"," ","b","y"," ","B","o","b"," ","i","n"," ","M","a","z","d","a">>,
                         <<"n","e","w"," ","t","r","a","c","k"," ","r","e","c","o","r","d","(","1",":","1","7",".","8","7","0",")","f","o","r"," ","I","T","7"," ","b","y"," ","[","1","]"," ","B","o","b">>,
                         <<"N","e","w"," ","T","r","a","c","k"," ","R","e","c","o","r","d"," ","(","1",":","1","7",".","8","7","0",")"," ","f","o","r"," ","I","T","7"," ","b","y"," ","B","o","b"," ","-"," ","t","o"," ","b","e"," ","c","o","n","f","i","r","m","e","d">>,
                         <<"T","r","a","c","k"," ","R","e","c","o","r","d"," ","(","1",":","1","7",".","8","7","0",")"," ","f","o","r"," ","I","T","7"," ","b","y"," ","B","o","b">>,
                         <<"N","e","w"," ","T","r","a","c","k"," ","R","e","c","o","r","d"," ","(","1",":","1","7",".","8","7","0",")"," ","f","o","r"," ","I","T","7"," ","b","y">>}
              Before == {<<>>, <<" ">>}
              After == {<<>>, <<".">>, <<" ">>, <<".", " ">>, <<"\n">>, <<".", "\n">>,
                        <<"\n", "\n">>, <<" ", " ">>}
          IN  {b \o t \o a : b \in Before, t \in Bodies, a \in After} :
          both = [text |-> text, parsed |-> "unset", found |-> "unset"]
    /\ pages = "idle"
    /\ fastest = "idle"
    /\ offs = "idle"
    /\ http = "idle"
    /\ poll = "idle"
    /\ life = "idle"

\* extract_track_records_to_csv: parsed = _parse_ann_text(text)
ParseAnnText ==
    /\ both.parsed = "unset"
    /\ both' = [both EXCEPT !.parsed = parse_track_record_text(both.text)]
    /\ UNCHANGED <<row, cand, pc, detected, result, textResult, verdict, out,
          seconds, looks, calls, frames, pages, fastest, offs, http, poll,
          life>>

\* get_fastest_records: the records _find_records_in_announcements yields
\* for the announcement.
FindRecords ==
    /\ both.found = "unset"
    /\ both' = [both EXCEPT !.found = find_records_in_announcements(both.text)]
    /\ UNCHANGED <<row, cand, pc, detected, result, textResult, verdict, out,
          seconds, looks, calls, frames, pages, fastest, offs, http, poll,
          life>>

NextBoth == ParseAnnText \/ FindRecords

SpecBoth == InitBoth /\ [][NextBoth]_vars

-----------------------------------------------------------------------------
(* Lap polling: poll_loop of LiveTimingClient.start_polling_fallback       *)
(* (mylaps_live_client.py) and poll_session_laps (stream_laps.py).  A step *)
(* is one poll with its scan for new rows, or one row handed over.         *)

\* make_key: (comp, lapnum) when both are there, else (comp, ts)
make_key(r) ==
    IF r.competitorId # -1 /\ r.lapNumber # -1
    THEN <<r.competitorId, r.lapNumber>>
    ELSE <<r.competitorId, r.lapTime>>

\* The scan of one page: the rows with a key not seen, and the keys seen
\* after it.  A row that is no dict raises at row.get and ends the scan:
\* the keys added before it stay in seen, and no row of the page is kept.
RECURSIVE Scan(_, _, _, _, _)
Scan(via, rows, i, seen, new_rows) ==
    LET \* poll_loop: key = (comp, lapnum)
        key == IF via = "poll_loop" THEN <<rows[i].competitorId, rows[i].lapNumber>>
               ELSE make_key(rows[i])
    IN  IF i > Len(rows) THEN [seen |-> seen, new_rows |-> new_rows, raised |-> FALSE]
        ELSE IF ~rows[i].dict THEN [seen |-> seen, new_rows |-> <<>>, raised |-> TRUE]
        ELSE IF key \in seen THEN Scan(via, rows, i + 1, seen, new_rows)
        ELSE Scan(via, rows, i + 1, seen \cup {key}, Append(new_rows, rows[i]))

InitPoll ==
    /\ row = NoRow
    /\ cand = <<>>
    /\ pc = "idle"
    /\ detected = "unset"
    /\ result = NoOutcome
    /\ textResult = <<>>
    /\ verdict = NoVerdict
    /\ out = <<>>
    /\ seconds = LapSeconds("unset", 0)
    /\ looks = "unset"
    /\ calls = NoCalls
    /\ frames = NoFrames
    /\ \E via \in {"poll_loop", "poll_session_laps"} :
          poll = [via |-> via, pc |-> "poll", seen |-> {}, polls |-> <<>>,
                  new_rows |-> <<>>, delivered |-> <<>>]
    /\ pages = "idle"
    /\ fastest = "idle"
    /\ offs = "idle"
    /\ http = "idle"
    /\ both = "idle"
    /\ life = "idle"

\* One iteration up to the rows to hand over: get_laps raises, or returns a
\* page that is scanned.
PollLaps ==
    /\ poll.pc = "poll"
    /\ Len(poll.polls) < MaxPolls
    /\ \/ poll' = [poll EXCEPT !.polls = Append(poll.polls, [raised |-> TRUE, rows |-> <<>>])]
       \/ \E rows \in
             LET \* A lap row; -1 stands for a key that is missing (or falsy:
                 \* the lookups are chained with "or").
                 LapRow(comp, lap, time) ==
                     [dict |-> TRUE, competitorId |-> comp, lapNumber |-> lap,
                      lapTime |-> time]
                 \* Rows with and without competitor id and lap number, and
                 \* an item that is not a dict.
                 Laps == {LapRow(7, 1, 62), LapRow(8, 1, 62), LapRow(7, -1, 62),
                          LapRow(7, -1, 63), LapRow(-1, 1, 62), LapRow(-1, 2, 62),
                          [dict |-> FALSE, competitorId |-> -1, lapNumber |-> -1,
                           lapTime |-> -1]}
             IN  UNION {[1..n -> Laps] : n \in 0..2} :
             LET s == Scan(poll.via, rows, 1, poll.seen, <<>>)
             IN  poll' = [poll EXCEPT
                            !.polls = Append(poll.polls, [raised |-> s.raised, rows |-> rows]),
                            !.seen = s.seen,
                            !.new_rows = s.new_rows,
                            !.pc = IF s.new_rows = <<>> THEN "poll" ELSE "deliver"]
    /\ UNCHANGED <<row, cand, pc, detected, result, textResult, verdict, out,
          seconds, looks, calls, frames, pages, fastest, offs, http, both,
          life>>

\* for r in new_rows: callback(r), whose exception is swallowed, or yield r.
DeliverRow ==
    /\ poll.pc = "deliver"
    /\ \E ok \in IF poll.via = "poll_loop" THEN BOOLEAN ELSE {TRUE} :
          poll' = [poll EXCEPT
                     !.delivered = Append(poll.delivered, [row |-> Head(poll.new_rows), ok |-> ok]),
                     !.new_rows = Tail(poll.new_rows),
                     !.pc = IF Len(poll.new_rows) = 1 THEN "poll" ELSE "deliver"]
    /\ UNCHANGED <<row, cand, pc, detected, result, textResult, verdict, out,
          seconds, looks, calls, frames, pages, fastest, offs, http, both,
          life>>

NextPoll == PollLaps \/ DeliverRow

SpecPoll == InitPoll /\ [][NextPoll]_vars

-----------------------------------------------------------------------------
(* The poller of LiveTimingClient (mylaps_live_client.py): one caller      *)
(* calling start_polling_fallback and close one after the other, and the   *)
(* poller threads it starts running beside it.  Poller k owns stop event   *)
(* k; 0 stands for an attribute that is not set yet.                       *)

\* thread.is_alive()
Alive(k) == k # 0 /\ life.th[k] \in {"test", "rows", "called"}

InitLife ==
    /\ row = NoRow
    /\ cand = <<>>
    /\ pc = "idle"
    /\ detected = "unset"
    /\ result = NoOutcome
    /\ textResult = <<>>
    /\ verdict = NoVerdict
    /\ out = <<>>
    /\ seconds = LapSeconds("unset", 0)
    /\ looks = "unset"
    /\ calls = NoCalls
    /\ frames = NoFrames
    /\ life = [pc |-> "idle", poll_thread |-> 0, stop_event |-> 0, set |-> {},
               th |-> [k \in 1..MaxPollers |-> "unborn"], calls |-> 0,
               prev |-> "none", last |-> "none", left |-> "unset", connected |-> FALSE]
    /\ pages = "idle"
    /\ fastest = "idle"
    /\ offs = "idle"
    /\ http = "idle"
    /\ both = "idle"
    /\ poll = "idle"

\* start_polling_fallback: a no-op while self._poll_thread is alive, else a
\* new stop event and a new thread are made and the thread is started.
\* left tells whether the call leaves a poller that was not told to stop.
StartPolling ==
    /\ life.pc = "idle"
    /\ life.calls < MaxCalls
    /\ IF Alive(life.poll_thread)
       THEN life' = [life EXCEPT !.calls = life.calls + 1,
                                 !.prev = life.last, !.last = "start",
                                 !.left = IF life.poll_thread \in life.set
                                          THEN "none" ELSE "running"]
       ELSE \E k \in 1..MaxPollers :
               /\ life.th[k] = "unborn"
               /\ \A j \in 1..(k - 1) : life.th[j] # "unborn"
               /\ life' = [life EXCEPT !.calls = life.calls + 1,
                                       !.prev = life.last, !.last = "start",
                                       !.stop_event = k, !.poll_thread = k,
                                       !.th[k] = "test", !.connected = TRUE,
                                       !.left = "running"]
    /\ UNCHANGED <<row, cand, pc, detected, result, textResult, verdict, out,
          seconds, looks, calls, frames, pages, fastest, offs, http, both,
          poll>>

\* close, up to the join: the stop event is set, and a thread that is alive
\* is joined.
Close ==
    /\ life.pc = "idle"
    /\ life.calls < MaxCalls
    /\ life' = [life EXCEPT
                  !.calls = life.calls + 1,
                  !.set = IF life.stop_event # 0 THEN life.set \cup {life.stop_event}
                          ELSE life.set,
                  !.pc = IF Alive(life.poll_thread) THEN "join" ELSE "idle",
                  !.prev = life.last, !.last = "close",
                  !.connected = IF Alive(life.poll_thread) THEN life.connected ELSE FALSE]
    /\ UNCHANGED <<row, cand, pc, detected, result, textResult, verdict, out,
          seconds, looks, calls, frames, pages, fastest, offs, http, both,
          poll>>

\* thread.join(timeout=2.0) returns: the thread has ended, or the two
\* seconds are over while it sleeps or waits for get_laps.
JoinReturns ==
    /\ life.pc = "join"
    /\ life' = [life EXCEPT !.pc = "idle", !.connected = FALSE]
    /\ UNCHANGED <<row, cand, pc, detected, result, textResult, verdict, out,
          seconds, looks, calls, frames, pages, fastest, offs, http, both,
          poll>>

\* while not stop_event.is_set(): the poller ends, or polls: get_laps
\* brings new rows or none.
LoopTest ==
    /\ \E k \in 1..MaxPollers :
          /\ life.th[k] = "test"
          /\ \E rows \in BOOLEAN :
                life' = [life EXCEPT !.th[k] = IF k \in life.set THEN "exited"
                                              ELSE IF rows THEN "rows" ELSE "test"]
    /\ UNCHANGED <<row, cand, pc, detected, result, textResult, verdict, out,
          seconds, looks, calls, frames, pages, fastest, offs, http, both,
          poll>>

\* for r in new_rows: callback(r)
Callback ==
    /\ \E k \in 1..MaxPollers :
          /\ life.th[k] = "rows"
          /\ life' = [life EXCEPT !.th[k] = "called"]
    /\ UNCHANGED <<row, cand, pc, detected, result, textResult, verdict, out,
          seconds, looks, calls, frames, pages, fastest, offs, http, both,
          poll>>

\* finally: time.sleep(interval), and back to the loop test.
Sleep ==
    /\ \E k \in 1..MaxPollers :
          /\ life.th[k] = "called"
          /\ life' = [life EXCEPT !.th[k] = "test"]
    /\ UNCHANGED <<row, cand, pc, detected, result, textResult, verdict, out,
          seconds, looks, calls, frames, pages, fastest, offs, http, both,
          poll>>

NextLife == StartPolling \/ Close \/ JoinReturns \/ LoopTest \/ Callback \/ Sleep

SpecLife == InitLife /\ [][NextLife]_vars

-----------------------------------------------------------------------------
(* The claims.                                                             *)

Parsed == result.kind # "unset"

Validated == pc \in {"validated", "done"}

\* `phrase` (lower case) occurs in t, ignoring case.
Contains(t, phrase) == IsStr(t) /\ ContainsLower(t, phrase)

\* `phrase` occurs in t as whole words: not inside a longer word.
ContainsWords(t, phrase) ==
    /\ IsStr(t)
    /\ \E s \in 1..Len(t) :
          /\ LitAt(t, s, phrase)
          /\ WordBoundary(t, s) /\ WordBoundary(t, s + Len(phrase))

PositiveKeywords == {<<"n","e","w"," ","t","r","a","c","k"," ","r","e","c","o","r","d">>, <<"n","e","w"," ","c","l","a","s","s"," ","r","e","c","o","r","d">>, <<"t","r","a","c","k"," ","r","e","c","o","r","d">>}

DenyList == {<<"n","o","t"," ","c","o","u","n","t","e","d">>, <<"u","n","o","f","f","i","c","i","a","l">>, <<"e","x","h","i","b","i","t","i","o","n">>, <<"n","o","t"," ","r","e","c","o","g","n","i","z","e","d">>}

\* C1 as stated: every text that contains a positive keyword and contains a
\* deny-list phrase is rejected by find_track_record_announcements.
C1_AsStated ==
    (/\ detected # "unset"
     /\ \E k \in PositiveKeywords : Contains(row.text, k)
     /\ \E d \in DenyList : Contains(row.text, d))
    => detected = "false"

\* C1, amended: every text that contains a positive keyword and contains a
\* deny-list phrase as whole words (not as part of a longer word such as
\* "unofficially") is rejected by find_track_record_announcements.
C1_NegationWins ==
    (/\ detected # "unset"
     /\ \E k \in PositiveKeywords : Contains(row.text, k)
     /\ \E d \in DenyList : ContainsWords(row.text, d))
    => detected = "false"

C1_Witness ==
    /\ detected = "false"
    /\ ContainsWords(row.text, <<"n","e","w"," ","t","r","a","c","k"," ","r","e","c","o","r","d">>)
    /\ ContainsWords(row.text, <<"u","n","o","f","f","i","c","i","a","l">>)

\* Whether shape k (1..5) matches the normalized text.
ShapeMatches(k, raw) ==
    CASE k = 1 -> RE_FOR_BY_IN(raw).ok
      [] k = 2 -> RE_FOR_BY(raw).ok
      [] k = 3 -> RE_FOR_BY_NOPAREN(raw).ok
      [] k = 4 -> PRIMARY(raw).ok
      [] k = 5 -> ALTERNATE(raw).ok

C3_Drivers == Drivers \cup {<<"B","o","b"," ","C","r","o","s","s"," ","t","o"," ","b","e"," ","c","o","n","f","i","r","m","e","d">>}

C3_Form(p, tm, c, d, m, e) ==
    p \o <<" ","(">> \o tm \o <<")"," ","f","o","r"," ">> \o c \o <<" ","b","y"," ">> \o d
      \o (IF m = None THEN <<>> ELSE <<" ","i","n"," ">> \o m) \o e

\* D with a leading "[digits] " marker removed.
C3_Unmarked(d) ==
    LET k == IndexOf(d, "]")
    IN  IF d # <<>> /\ d[1] = "[" /\ k > 2 /\ \A j \in 2..(k - 1) : IsDigit(d[j])
        THEN LStrip(SubSeq(d, k + 1, Len(d))) ELSE d

C3_Expected(tm, c, d, m) ==
    << [classification |-> c, lap_time |-> tm, driver |-> C3_Unmarked(d), marque |-> m] >>

\* The words every text of the shape holds.
C3_HasShapeWords(t) ==
    /\ Contains(t, <<"n","e","w"," ","t","r","a","c","k"," ","r","e","c","o","r","d">>) \/ Contains(t, <<"n","e","w"," ","c","l","a","s","s"," ","r","e","c","o","r","d">>)
    /\ Contains(t, <<" ","f","o","r"," ">>)
    /\ Contains(t, <<" ","b","y"," ">>)

C3_Cases(P(_, _, _, _)) ==
    \A p \in {<<"N","e","w"," ","T","r","a","c","k"," ","R","e","c","o","r","d">>, <<"n","e","w"," ","c","l","a","s","s"," ","r","e","c","o","r","d">>}, tm \in Times,
       d \in C3_Drivers, m \in {None, <<"F","o","r","d">>}, e \in {<<>>, <<".">>} :
        row.text = C3_Form(p, tm, <<"I","T","7">>, d, m, e) => P(tm, <<"I","T","7">>, d, m)

\* C3 as stated: every text of the shape is parsed to its C, T, D and M.
C3_AsStated ==
    pc = "text_parsed" =>
        /\ C3_Cases(LAMBDA tm, c, d, m : textResult = C3_Expected(tm, c, d, m))
        /\ ~C3_HasShapeWords(row.text) => textResult = <<>>

\* C3, amended: a text of the shape is parsed to its C, T, D and M unless it
\* contains "to be confirmed", "not a track record" or "not a class record"
\* (in any letter case), for which the result is None; a text without the
\* shape gives None.
C3_ParseText ==
    pc = "text_parsed" =>
        /\ C3_Cases(LAMBDA tm, c, d, m :
              textResult = IF Provisional(row.text) THEN <<>> ELSE C3_Expected(tm, c, d, m))
        /\ ~C3_HasShapeWords(row.text) => textResult = <<>>

\* A bare-seconds lap time, a marker stripped, a marque without its period.
C3_Witness ==
    /\ pc = "text_parsed"
    /\ row.text = C3_Form(<<"n","e","w"," ","c","l","a","s","s"," ","r","e","c","o","r","d">>, <<"6","3",".","0","0","4">>, <<"I","T","7">>,
                          Marker(1) \o <<" ","K","a","y">>, <<"F","o","r","d">>, <<".">>)
    /\ textResult = << [classification |-> <<"I","T","7">>, lap_time |-> <<"6","3",".","0","0","4">>,
                        driver |-> <<"K","a","y">>, marque |-> <<"F","o","r","d">>] >>

\* C4: parse_track_record_announcement returns a record or None and never
\* raises, for every row and text.
C4_NeverRaises == result.kind # "raise"

\* The five checks of the validator as C5 words them.
C5_ChecksAsStated(opt) ==
    IF opt = <<>> THEN <<FALSE, TRUE, TRUE, TRUE, TRUE>>
    ELSE LET tr == opt[1]
         IN  <<TRUE,
               IsStr(tr.lap_time) /\ CanonicalLapTime(tr.lap_time),
               IsStr(tr.driver_name) /\ Strip(tr.driver_name) # <<>>,
               IsStr(tr.track_name) /\ tr.track_name # <<>>,
               IsStr(tr.class_name) /\ tr.class_name # <<>> >>

\* The checks with "non-empty" read as "non-empty after trimming" for the
\* driver, the track and the class alike.
C5_ChecksTrimmed(opt) ==
    IF opt = <<>> THEN <<FALSE, TRUE, TRUE, TRUE, TRUE>>
    ELSE LET tr == opt[1]
         IN  <<TRUE,
               IsStr(tr.lap_time) /\ CanonicalLapTime(tr.lap_time),
               IsStr(tr.driver_name) /\ Strip(tr.driver_name) # <<>>,
               IsStr(tr.track_name) /\ Strip(tr.track_name) # <<>>,
               IsStr(tr.class_name) /\ Strip(tr.class_name) # <<>> >>

C5_Reasons ==
    <<"No record parsed", "Invalid lapTime", "Missing driverName",
      "Missing trackName", "Missing classAbbreviation">>

\* The verdict of the first failing check, or (True, None).
C5_Expected(checks) ==
    LET failing == {k \in 1..5 : ~checks[k]}
    IN  IF failing = {} THEN Verdict(TRUE, "None")
        ELSE Verdict(FALSE, C5_Reasons[MinOf(failing)])

\* C5 as stated: the verdict is that of the first failing check in the
\* order null, lap time, driver (trimmed), track (non-empty), class
\* (non-empty), and (True, None) when none fails.
C5_AsStated == Validated => verdict = C5_Expected(C5_ChecksAsStated(cand))

\* C5, amended: the same, with the track name and the class name required
\* to be non-empty after trimming, like the driver name.
C5_CheckOrder == Validated => verdict = C5_Expected(C5_ChecksTrimmed(cand))

\* A bare-seconds lap time is reported before a missing driver.
C5_Witness ==
    /\ Validated /\ cand # <<>>
    /\ cand[1].lap_time = <<"6","1",".","8","6","1">>
    /\ cand[1].driver_name = <<>>
    /\ verdict = Verdict(FALSE, "Invalid lapTime")

\* C6: a candidate that passes the lap-time, driver, track and class checks
\* and whose vehicle equals its lap_time is rejected with the reason
\* "Marque equals lapTime (malformed text)".
C6_MarqueGuard ==
    (/\ Validated /\ cand # <<>>
     /\ \A k \in 1..5 : C5_ChecksTrimmed(cand)[k]
     /\ cand[1].vehicle # None
     /\ cand[1].vehicle = cand[1].lap_time)
    => verdict = Verdict(FALSE, "Marque equals lapTime (malformed text)")

\* A candidate whose only failing check is the class check.
C7_OnlyClassMissing(opt) ==
    /\ opt # <<>>
    /\ \A k \in 1..4 : C5_ChecksTrimmed(opt)[k]
    /\ ~C5_ChecksTrimmed(opt)[5]

\* C7: a candidate valid but for its empty class is rejected with exactly
\* "Missing classAbbreviation" and is emitted by the caller's exception
\* path with classAbbreviation = ""; a candidate that fails another check
\* is not emitted.
C7_BlankClassPath ==
    pc = "done" =>
        /\ C7_OnlyClassMissing(cand) =>
              /\ verdict = Verdict(FALSE, "Missing classAbbreviation")
              /\ out # <<>> /\ out[1].classAbbreviation = <<>>
        /\ (\E k \in 1..4 : ~C5_ChecksTrimmed(cand)[k]) => out = <<>>

C7_Witness ==
    /\ pc = "done"
    /\ C7_OnlyClassMissing(cand)
    /\ out # <<>> /\ out[1].classAbbreviation = <<>>
    /\ out[1].driverName = <<"B","o","b">>

\* C8: every record returned has a canonical lap_time, the lap-time token
\* of the text.
C8_CanonicalLapTime ==
    result.kind = "record" =>
        /\ CanonicalLapTime(result.rec.lap_time)
        /\ result.rec.lap_time = FIND_TIME(Raw(row))

\* C9: every record returned has a driver_name that is non-empty after
\* cleaning.
C9_DriverNonEmpty ==
    result.kind = "record" => Strip(result.rec.driver_name) # <<>>

\* C10: the record of a row whose eventDate is non-empty has that date,
\* whatever shape produced it and whatever date the text holds.
C10_EventDateWins ==
    (result.kind = "record" /\ Truthy(row.eventDate)) => result.rec.date = row.eventDate

\* The fallback on a text with a date token, for a row with an eventDate.
C10_Witness ==
    /\ result.kind = "record" /\ result.shape = 6
    /\ Truthy(row.eventDate)
    /\ FallbackDate(Tokens(Raw(row))) # None
    /\ result.rec.date = row.eventDate

-----------------------------------------------------------------------------
(* Claims on the separator shapes and the fallback.                        *)

\* The text holds a date token in one of the three formats.
C11_HasDateToken(raw) == is_date_token(raw)

\* C11: a record of the primary, alternate or fallback shape, for a row
\* without eventDate, has the ISO form of the date token the text carries
\* (every date token of the inputs denotes 2024-05-10), and a null date
\* only when the text carries no date token.
C11_TextDate ==
    (/\ result.kind = "record" /\ result.shape \in {4, 5, 6}
     /\ ~Truthy(row.eventDate))
    => result.rec.date = IF C11_HasDateToken(Raw(row)) THEN <<"2","0","2","4","-","0","5","-","1","0">> ELSE None

\* The primary-shape text with the given driver segment, marque and date.
C12_Text(p, d, m, dt) == p \o <<" ","-"," ","I","T","7"," ","-"," ","1",":","1","7",".","8","7","0"," ","-"," ">> \o d \o m \o dt

\* C12: every text "New Track Record - IT7 - 1:17.870 - DRIVER[ ((Ford))]
\* [ - DATE]" yields a record with class_name = "IT7", lap_time =
\* "1:17.870" and driver_name the whole DRIVER segment (as written, or with
\* its grid-position marker cleaned off).
C12_PrimaryFields ==
    \A d \in Drivers, m \in {<<>>, <<" ","(","(","F","o","r","d",")",")">>},
       dt \in {<<>>} \cup {<<" ","-"," ">> \o x : x \in DateTokens} :
        (Parsed /\ row.text = C12_Text(<<"N","e","w"," ","T","r","a","c","k"," ","R","e","c","o","r","d">>, d, m, dt)) =>
            /\ result.kind = "record"
            /\ result.rec.class_name = <<"I","T","7">>
            /\ result.rec.lap_time = <<"1",":","1","7",".","8","7","0">>
            /\ result.rec.driver_name \in {d, driver_clean(d)}

\* The alternate-shape text with the given driver segment, marque and date.
C13_Text(p, d, m, dt) == p \o <<" ">> \o d \o m \o <<" ","-"," ","1",":","1","7",".","8","7","0"," ","-"," ","I","T","7">> \o dt

\* C13: every text "New Track Record DRIVER[ ((Ford))] - 1:17.870 - IT7
\* [ - DATE]", with or without the date, yields a record with driver_name =
\* DRIVER (as written, or with its grid-position marker cleaned off),
\* lap_time = "1:17.870" and class_name = "IT7".
C13_AlternateFields ==
    \A d \in Drivers, m \in {<<>>, <<" ","(","(","F","o","r","d",")",")">>},
       dt \in {<<>>} \cup {<<" ","-"," ">> \o x : x \in DateTokens} :
        (Parsed /\ row.text = C13_Text(<<"N","e","w"," ","T","r","a","c","k"," ","R","e","c","o","r","d">>, d, m, dt)) =>
            /\ result.kind = "record"
            /\ result.rec.driver_name \in {d, driver_clean(d)}
            /\ result.rec.lap_time = <<"1",":","1","7",".","8","7","0">>
            /\ result.rec.class_name = <<"I","T","7">>

\* The text holds a marque clause: " in MARQUE" after the driver of shape
\* 1, or a parenthesized ((MARQUE)).
C14_MarqueOf(raw) ==
    IF ContainsLower(raw, <<" ","i","n"," ","f","o","r","d">>) \/ ContainsLower(raw, <<"(","(","f","o","r","d",")",")">>)
    THEN <<"F","o","r","d">> ELSE None

\* C14: the vehicle of every record returned is null unless the text holds
\* a marque clause, and then it is that marque ("Ford" in the inputs); it
\* is never a lap-time token or a date token.
C14_VehicleIsMarque ==
    result.kind = "record" =>
        /\ result.rec.vehicle \in {None, C14_MarqueOf(Raw(row))}
        /\ result.rec.vehicle = None \/ ~is_date_token(result.rec.vehicle)
        /\ result.rec.vehicle = None \/ FIND_TIME(result.rec.vehicle) = None

-----------------------------------------------------------------------------
(* Claims on lap-time normalization.                                       *)

\* str(x) of a float given in ten-thousandths: the shortest decimal, with
\* one decimal at least.
C15_FloatStr(ticks) ==
    LET Frac(d) == IF d % 1000 = 0 THEN Pad(d \div 1000, 1)
                   ELSE IF d % 100 = 0 THEN Pad(d \div 100, 2)
                   ELSE IF d % 10 = 0 THEN Pad(d \div 10, 3)
                   ELSE Pad(d, 4)
    IN  Decimal(ticks \div 10000) \o <<".">> \o Frac(ticks % 10000)

\* The lap time of the exported candidate.
C15_Lap == cand[1].lap_time

\* C15: for every canonical lap-time string t (M:SS.mmm or MM:SS.mmm),
\* parse_lap_time_to_seconds(t) returns a number, and normalizing that
\* number back yields exactly t.
C15_RoundTrip ==
    (pc = "timed" /\ C15_Lap # None /\ CanonicalLapTime(C15_Lap)) =>
        /\ seconds.kind = "value"
        /\ normalize_lap_time_str(C15_FloatStr(seconds.ticks)) = C15_Lap

\* A bare number of seconds: digits with an optional decimal part.
C16_BareSeconds(v) == v # None /\ DecimalField(Strip(v), 1, Len(Strip(v)))

\* The seconds field of a lap time "M:SS.mmm", as a number.
C16_SecondsField(s) == Num(SubSeq(s, Len(s) - 5, Len(s) - 4))

\* The minutes field of a lap time, as a number.
C16_MinutesField(s) == Num(SubSeq(s, 1, Len(s) - 7))

\* C16: _normalize_lap_time_str returns a canonical string unchanged, and
\* for a bare number of seconds s it returns a string that fully matches
\* \d{1,2}:\d{2}\.\d{3}, with minutes = floor(s / 60) and a seconds field
\* below 60.
C16_Normalized ==
    (pc = "exported" /\ C15_Lap # None) =>
        /\ CanonicalLapTime(C15_Lap) => out[1].lapTime = C15_Lap
        /\ C16_BareSeconds(C15_Lap) =>
              /\ CanonicalLapTime(out[1].lapTime)
              /\ C16_SecondsField(out[1].lapTime) < 60
              /\ C16_MinutesField(out[1].lapTime) = FloatTicks(Strip(C15_Lap)) \div 600000

-----------------------------------------------------------------------------
(* Claims on field cleaning, determinism and normalization.                *)

\* The driver string captured by shape k (1..3) of the cascade.
C17_Captured(k, raw) ==
    CASE k = 1 -> RE_FOR_BY_IN(raw).g[3]
      [] k = 2 -> RE_FOR_BY(raw).g[3]
      [] k = 3 -> RE_FOR_BY_NOPAREN(raw).g[3]

\* The string starts with a grid-position marker "[digits]".
C17_LeadingMarker(d) == MarkerEnd(d, SkipWs(d, 1)) # 0

\* C17: driver cleaning strips only a leading marker: the record of shapes
\* 1-3 has the captured driver string unchanged (trimmed) when it has no
\* leading marker, and cleaning a cleaned name again changes nothing, in
\* parse_track_record_announcement and in parse_track_record_text.
C17_CleanLeadingOnly ==
    /\ (result.kind = "record" /\ result.shape \in 1..3) =>
          /\ ~C17_LeadingMarker(C17_Captured(result.shape, Raw(row)))
                => result.rec.driver_name = Strip(C17_Captured(result.shape, Raw(row)))
          /\ driver_clean(result.rec.driver_name) = result.rec.driver_name
    /\ textResult # <<>> =>
          StripLeadingMarker(textResult[1].driver) = textResult[1].driver

\* The idempotence half of C17 for parse_track_record_text alone.
C17_TextIdempotent ==
    textResult # <<>> => StripLeadingMarker(textResult[1].driver) = textResult[1].driver

\* The record and the (bool, reason) pair a call on row r returns when it
\* runs alone.
C18_Alone(r) ==
    LET Pair(ret) == <<ret, is_record_valid(IF ret.kind = "record" THEN <<ret.rec>> ELSE <<>>)>>
    IN  Pair(parse_track_record_announcement(r))

C19_GateBeforeCascade ==
    (pc = "parsed" /\ IsStr(row.text) /\ Strip(row.text) # <<>>
        /\ (~find_track_record_announcements(row.text)
              \/ ~find_track_record_announcements(Raw(row))))
    => result.kind = "none"

\* A parsed row whose text has a deny-list phrase and would match a shape of
\* the cascade.
C19_Witness ==
    /\ pc = "parsed"
    /\ IsStr(row.text)
    /\ AnyPattern(NEGATION_PATTERNS, row.text)
    /\ AnyPattern(TR_PATTERNS, row.text)
    /\ Cascade(row, Raw(row)).kind = "record"
    /\ result.kind = "none"

\* The row with its text normalized: zero-width characters removed,
\* whitespace runs collapsed, ends trimmed.
C20_Normalized(r) == [r EXCEPT !.text = sanitize_text(r.text)]

\* The fields a parse yields, or no match.
C20_Fields(o) == <<o.kind, o.rec>>

\* C20: text normalization invariance: a text and its normalized form (which
\* differ only in whitespace runs and zero-width characters) are parsed by
\* parse_track_record_announcement to the same fields, or both to no match,
\* and normalizing the normalized text changes nothing.
C20_NormalizationInvariant ==
    (pc = "parsed" /\ IsStr(row.text)) =>
        /\ C20_Fields(result)
             = C20_Fields(parse_track_record_announcement(C20_Normalized(row)))
        /\ sanitize_text(sanitize_text(row.text)) = sanitize_text(row.text)

\* The whitespace half of C20 alone: collapsing whitespace runs and trimming
\* the text of a row without zero-width characters leaves the parse unchanged.
C20_WhitespaceInvariant ==
    (pc = "parsed" /\ IsStr(row.text) /\ sanitize_text(row.text) = normalize_space(row.text)) =>
        C20_Fields(result)
          = C20_Fields(parse_track_record_announcement(C20_Normalized(row)))

-----------------------------------------------------------------------------
(* Claims on pagination, retries and polling.                              *)

\* The event dicts of the responses r[1..n], in order.
RECURSIVE C21_EventsOf(_, _)
C21_EventsOf(r, n) ==
    IF n = 0 THEN <<>>
    ELSE C21_EventsOf(r, n - 1)
         \o SelectSeq(IF r[n].kind \in {"dict", "list"} THEN r[n].items ELSE <<>>,
                      LAMBDA it : it.dict)

\* The response ends the pagination early: as the first page anything but a
\* dict does, as a later page anything but a dict with items.
C21_Stops(d, first) == d.kind # "dict" \/ (~first /\ d.items = <<>>)

C22_Of(c, ignoreCase) ==
    {k \in 1..Len(fastest.found) :
        IF ignoreCase THEN upper(fastest.found[k].classification) = upper(c)
        ELSE fastest.found[k].classification = c}

\* Record r is a fastest one among the records at the positions S: it has
\* a lap time unless none of them has, and none of them is faster.
C22_Fastest(r, S) ==
    /\ r.at \in S
    /\ \A k \in S : ~Faster(fastest.found[k], r)

\* C22: get_fastest_records keeps for each classification the record with the
\* smallest lap_time_seconds among all parsed records of that classification,
\* and with --classification X reports the fastest among all parsed records
\* whose classification equals X ignoring case.
C22_FastestReported ==
    fastest.pc = "returned" =>
        /\ fastest.rc = 0 =>
              \A k \in 1..Len(fastest.fastest_by_class) :
                  C22_Fastest(fastest.fastest_by_class[k],
                              C22_Of(fastest.fastest_by_class[k].classification, FALSE))
        /\ (fastest.arg # <<>> /\ C22_Of(fastest.arg, TRUE) # {}) =>
              /\ fastest.rc = 0
              /\ Len(fastest.reported) = 1
              /\ C22_Fastest(fastest.reported[1], C22_Of(fastest.arg, TRUE))

\* The grouping half of C22 alone: every classification, spelled as in the
\* text, keeps a fastest record of exactly that spelling.
C22_PerSpelling ==
    (fastest.pc = "returned" /\ fastest.rc = 0) =>
        \A k \in 1..Len(fastest.fastest_by_class) :
            C22_Fastest(fastest.fastest_by_class[k],
                        C22_Of(fastest.fastest_by_class[k].classification, FALSE))

\* The token scan of the fallback found a class, a driver, a marque or a
\* date in the text of the record it returned.
C23_Found(rec, raw) ==
    \/ rec.class_name # <<>>
    \/ rec.driver_name # <<>>
    \/ Truthy(rec.vehicle)
    \/ FallbackDate(Tokens(raw)) # None

\* C23: fallback acceptance: a text without a lap-time token yields None, and
\* the fallback returns a record only when its token scan found at least one
\* of class, driver, marque or date in the text.
C23_FallbackAcceptance ==
    (pc = "parsed" /\ result.kind # "raise") =>
        /\ FIND_TIME(Raw(row)) = None => result.kind = "none"
        /\ (result.shape = 6 /\ result.kind = "record") => C23_Found(result.rec, Raw(row))

\* The part of C23 on texts without a lap-time token alone.
C23_NoTimeNoRecord ==
    (pc = "parsed" /\ FIND_TIME(Raw(row)) = None) => result.kind = "none"

\* Token t contains the record prefix, in any letter case.
C24_HasPrefix(t) == \E s \in 1..Len(t) : PREFIX(t, s) # 0

\* The text contains the record keyword "track record" or "class record".
C24_HasKeyword(t) ==
    \E s \in 1..Len(t) : LitAt(t, s, <<"t","r","a","c","k"," ","r","e","c","o","r","d">>) \/ LitAt(t, s, <<"c","l","a","s","s"," ","r","e","c","o","r","d">>)

\* The tokens the fallback may take the driver from.
C24_Eligible(raw) ==
    SelectSeq(Tokens(raw), LAMBDA t :
        /\ t # FIND_TIME(raw)
        /\ t # FirstClassToken(Tokens(raw))
        /\ ~is_date_token(t)
        /\ ~SearchParen(t)
        /\ ~C24_HasPrefix(t))

\* C24: fallback driver selection: the driver name of a fallback record is
\* the longest token that is not the lap-time token, the class token, a date
\* token, parenthesized content or a "New ... Record" prefix token in any
\* letter case (empty when there is none), and never holds the record
\* keyword.
C24_FallbackDriver ==
    (pc = "parsed" /\ result.kind = "record" /\ result.shape = 6) =>
        /\ result.rec.driver_name =
              (IF C24_Eligible(Raw(row)) = <<>> THEN <<>>
               ELSE Longest(C24_Eligible(Raw(row))))
        /\ ~C24_HasKeyword(result.rec.driver_name)

\* C25: a text that looks_like_record_without_prefix accepts ("(TIME) for
\* CLASS by DRIVER" or "TIME for CLASS by DRIVER" as the whole text, no
\* prefix in front) is refused by the detection gate and parsed to None, so
\* "parsed record" and "malformed, missing prefix" never both apply; what is
\* not a str is never accepted.
C25_MalformedOrParsed ==
    pc = "looked" =>
        /\ looks = "true" =>
              /\ ~find_track_record_announcements(Raw(row))
              /\ result.kind = "none"
        /\ ~IsStr(row.text) => looks = "false"

\* The part of C25 on what is not a str alone.
C25_NotAStr == (pc = "looked" /\ ~IsStr(row.text)) => looks = "false"


-----------------------------------------------------------------------------
\* The items of the pages fetched so far, in the order the server sent them.
RECURSIVE C26_ItemsOf(_)
C26_ItemsOf(got) ==
    IF got = <<>> THEN <<>> ELSE got[1].items \o C26_ItemsOf(Tail(got))

C26_Body ==
    LET n == Len(offs.yielded)
        all == C26_ItemsOf(offs.got)
        limited == offs.max_items # -1
    IN  /\ \A j \in 1..Len(offs.asked) :
              offs.asked[j] = offs.start_offset + (j - 1) * offs.count
        /\ n <= Len(all) /\ offs.yielded = SubSeq(all, 1, n)
        /\ limited => n <= offs.max_items
        /\ \A j \in 1..(Len(offs.got) - 1) :
              /\ Len(offs.got[j].items) = offs.count
              /\ limited => Len(C26_ItemsOf(SubSeq(offs.got, 1, j))) < offs.max_items
        /\ offs.pc = "done" => n = Len(all) \/ (limited /\ n = offs.max_items)

\* C26: _paginate_offset asks for the offsets start_offset, start_offset +
\* count, ... in order, yields the items of the pages in server order, asks
\* for no page after an empty or short page or after max_items items were
\* yielded, and never yields more than max_items items.
C26_OffsetPagination == C26_Body

\* The same for every max_items but 0.
C26_PositiveLimit == offs.max_items = 0 \/ C26_Body

\* With the consumer taking every item and every request answered, the
\* generator ends.
C26_FairOffset == SpecOffset /\ WF_vars(NextOffset)

C26_Terminates == <>(offs.pc \in {"done", "raised"})

-----------------------------------------------------------------------------
C27_Retryable == {"RequestException", "429", "500", "502", "503", "504"}

\* C27: a call of the legacy _get makes at most max(1, max_retries)
\* attempts; every attempt but the last ended in a request exception or a
\* 429/500/502/503/504 status while attempts remained; the call returns the
\* JSON body on the first 200 response that holds JSON, and otherwise ends
\* raising SpeedHiveError: on another status, on invalid JSON, or when the
\* attempts are used up.
C27_RetryBound ==
    LET n == Len(http.log)
        most == IF http.max_retries > 1 THEN http.max_retries ELSE 1
    IN  /\ n = http.attempt /\ n <= most
        /\ \A j \in 1..(n - 1) : http.log[j] \in C27_Retryable /\ j < http.max_retries
        /\ http.pc = "loop" => n < most
        /\ http.pc = "returned" =>
              http.log[n] = "200 json" /\ http.ret = "json" /\ http.error = "none"
        /\ http.pc = "raised" =>
              /\ http.error = "SpeedHiveError" /\ http.ret = "unset"
              /\ http.log[n] # "200 json"
              /\ http.log[n] \in C27_Retryable => n = most
        /\ http.pc \in {"returned", "raised"} <=> n > 0 /\ http.pc # "loop"

\* The attempts are used up after two retries.
C27_Witness ==
    /\ http.pc = "raised" /\ http.max_retries = 3 /\ http.attempt = 3
    /\ http.log[3] = "503"

-----------------------------------------------------------------------------
C28_Both == both.parsed # "unset" /\ both.found # "unset"

\* C28: parse_track_record_text and _find_records_in_announcements give the
\* same for every announcement text: both no record, or both the same
\* classification, lap_time, driver and marque.
C28_SameParser == C28_Both => both.parsed = both.found

\* The same for the texts that do not end in whitespace.
C28_SameWithoutTrailingSpace ==
    C28_Both /\ ~IsSpace(both.text[Len(both.text)]) => both.parsed = both.found

-----------------------------------------------------------------------------
\* The rows of the polls made so far, in the order they came.
RECURSIVE C29_RowsOf(_)
C29_RowsOf(polls) ==
    IF polls = <<>> THEN <<>> ELSE polls[1].rows \o C29_RowsOf(Tail(polls))

\* The lap rows of a sequence, each at its first appearance only.
RECURSIVE C29_First(_, _)
C29_First(rows, had) ==
    IF rows = <<>> THEN <<>>
    ELSE IF rows[1] \in had \/ ~rows[1].dict THEN C29_First(Tail(rows), had)
    ELSE <<rows[1]>> \o C29_First(Tail(rows), had \cup {rows[1]})

C29_Delivered == [i \in 1..Len(poll.delivered) |-> poll.delivered[i].row]

\* C29: between two polls, the rows delivered are the lap rows of all polls,
\* each once and in the order of its first appearance: no row is delivered
\* twice, no two distinct rows are taken for one, and no exception of a
\* callback or a poll keeps a later new row back.
C29_EachRowOnce ==
    poll.pc = "poll" => C29_Delivered = C29_First(C29_RowsOf(poll.polls), {})

\* The same where every item polled is a dict with competitor id and lap
\* number.
C29_KeyedRowsOnce ==
    LET rows == C29_RowsOf(poll.polls)
    IN  /\ poll.pc = "poll"
        /\ \A i \in 1..Len(rows) :
              rows[i].dict /\ rows[i].competitorId # -1 /\ rows[i].lapNumber # -1
        => C29_Delivered = C29_First(rows, {})

\* No row is ever delivered twice.
C29_NeverTwice ==
    \A i, j \in 1..Len(poll.delivered) :
        poll.delivered[i].row = poll.delivered[j].row => i = j

-----------------------------------------------------------------------------
C30_Polling == {k \in 1..MaxPollers : life.th[k] \in {"test", "rows", "called"}}

\* C30: at most one poller thread is alive at any time, and a call of
\* start_polling_fallback that follows a close() leaves a poller that goes
\* on polling.
C30_Lifecycle ==
    /\ Cardinality(C30_Polling) <= 1
    /\ life.last = "start" /\ life.prev = "close" => life.left = "running"

\* At most one poller thread is alive at any time.
C30_OnePoller == Cardinality(C30_Polling) <= 1

\* A poller that finds its stop event set at the loop test ends without
\* another callback, and a poller that has ended stays so.
C30_StoppedStaysQuiet ==
    [][\A k \in 1..MaxPollers :
          /\ life.th[k] = "test" /\ k \in life.set => life.th'[k] \in {"test", "exited"}
          /\ life.th[k] = "exited" => life.th'[k] = "exited"]_vars
=============================================================================
